---- MODULE Spec2Model ----
(***************************************************************************)
(* A model of the case100 interpreter: the Environment (iar, memory,       *)
(* poison), the step function of src/src/core.rs, the DeviceArray bus of   *)
(* src/src/devices.rs with the devices main() registers, and the UI        *)
(* operations of src/src/main.rs that overwrite the environment.           *)
(*                                                                         *)
(* Representation.                                                         *)
(*  - A word is an i32: an integer in MinI32..MaxI32.  TLC's integers are  *)
(*    32 bits wide and trap on overflow, so every arithmetic operator      *)
(*    below is written so that no intermediate value leaves that range.    *)
(*  - A usize (iar, an address) is held by its two's-complement reading:   *)
(*    the usize that `w as usize` yields for a negative word w (its sign   *)
(*    extension, 2^64 + w) is held as w itself.  Every usize the program   *)
(*    forms is such a cast or a small sum of one, so the reading is exact; *)
(*    unsigned comparisons are made by ULt/UGe.                            *)
(*  - A device register (u32) 0x800000nn is held the same way, as          *)
(*    MinI32 + nn (Reg(nn)).                                               *)
(*  - memory is the 16384-word array held sparsely: a function from the    *)
(*    addresses whose word is not 0 to that word (MemRead, MemWrite).      *)
(***************************************************************************)
EXTENDS Integers, Sequences, FiniteSets, TLC

MaxI32 == 2147483647
MinI32 == -MaxI32 - 1

MEMORY_SIZE == 16384

(***************************************************************************)
(* Unsigned comparison of two usize values held by their signed reading.   *)
(***************************************************************************)
ULt(a, b) ==
  IF (a < 0) = (b < 0) THEN a < b ELSE b < 0

UGe(a, b) == ~ULt(a, b)

(***************************************************************************)
(* i32 arithmetic (the std methods step calls).                            *)
(***************************************************************************)
\* The sum clamped to the i32 range (what i32::saturating_add would store).
saturating_add(a, b) ==
  IF a >= 0 /\ b >= 0 /\ a > MaxI32 - b THEN MaxI32
  ELSE IF a < 0 /\ b < 0 /\ a < MinI32 - b THEN MinI32
  ELSE a + b

wrapping_add(a, b) ==
  IF a >= 0 /\ b >= 0 /\ a > MaxI32 - b THEN (a + MinI32) + (b + MinI32)
  ELSE IF a < 0 /\ b < 0 /\ a < MinI32 - b THEN (a - MinI32) + (b - MinI32)
  ELSE a + b

wrapping_neg(a) == IF a = MinI32 THEN MinI32 ELSE -a

wrapping_sub(a, b) == wrapping_add(a, wrapping_neg(b))

\* TRUE iff the exact product a * b lies outside MinI32..MaxI32.
MulOverflows(a, b) ==
  IF a = 0 \/ b = 0 THEN FALSE
  ELSE IF a > 0 /\ b > 0 THEN a > MaxI32 \div b
  ELSE IF a < 0 /\ b < 0 THEN
    a = MinI32 \/ b = MinI32 \/ (-a) > MaxI32 \div (-b)
  ELSE LET p == IF a > 0 THEN a ELSE b
           n == IF a > 0 THEN b ELSE a
       IN  n < (MinI32 + (p - 1)) \div p

\* The product modulo 2^32 (what i32::wrapping_mul would store).
RECURSIVE wrapping_mul(_, _)
wrapping_mul(a, b) ==
  IF b = 0 THEN 0
  ELSE IF b = MinI32 THEN (IF a % 2 = 1 THEN MinI32 ELSE 0)
  ELSE IF b < 0 THEN wrapping_neg(wrapping_mul(a, -b))
  ELSE LET h == wrapping_mul(a, b \div 2)
           d == wrapping_add(h, h)
       IN  IF b % 2 = 1 THEN wrapping_add(d, a) ELSE d

saturating_mul(a, b) ==
  IF MulOverflows(a, b)
  THEN IF (a < 0) = (b < 0) THEN MaxI32 ELSE MinI32
  ELSE a * b

\* Quotient rounded toward zero, for b > 0.
TruncDivPos(a, b) ==
  IF a >= 0 \/ a % b = 0 THEN a \div b ELSE (a \div b) + 1

\* The quotient rounded toward minus infinity for a positive divisor.
floor_div(a, b) ==
  IF b = -1 THEN wrapping_neg(a)
  ELSE IF b = MinI32 THEN (IF a = MinI32 THEN 1 ELSE 0)
  ELSE IF b > 0 THEN a \div b
  ELSE -TruncDivPos(a, -b)

\* i32::wrapping_div for b # 0: truncating, and MinI32 / -1 = MinI32.
wrapping_div(a, b) ==
  IF b = -1 THEN wrapping_neg(a)
  ELSE IF b = MinI32 THEN (IF a = MinI32 THEN 1 ELSE 0)
  ELSE IF b > 0 THEN TruncDivPos(a, b)
  ELSE -TruncDivPos(a, -b)

\* Bitwise operators on i32, by the sign bit and the low 31 bits.
Low31(x) == IF x < 0 THEN x - MinI32 ELSE x

RECURSIVE NatAnd(_, _)
NatAnd(x, y) ==
  IF x = 0 \/ y = 0 THEN 0
  ELSE (x % 2) * (y % 2) + 2 * NatAnd(x \div 2, y \div 2)

BitAnd(a, b) ==
  LET low == NatAnd(Low31(a), Low31(b))
  IN  IF a < 0 /\ b < 0 THEN low + MinI32 ELSE low

BitNot(a) == -1 - a

BitOr(a, b) == BitNot(BitAnd(BitNot(a), BitNot(b)))

\* a << k and a >> k (arithmetic) for a shift count 0 <= k <= 31.
RECURSIVE Shl(_, _)
Shl(a, k) == IF k = 0 THEN a ELSE Shl(wrapping_add(a, a), k - 1)

RECURSIVE Shr(_, _)
Shr(a, k) == IF k = 0 THEN a ELSE Shr(a \div 2, k - 1)

(***************************************************************************)
(* The memory array, held sparsely.                                        *)
(***************************************************************************)
MemRead(m, a) == IF a \in DOMAIN m THEN m[a] ELSE 0

MemWrite(m, a, v) ==
  IF v = 0 THEN [x \in DOMAIN m \ {a} |-> m[x]]
  ELSE [x \in DOMAIN m \cup {a} |-> IF x = a THEN v ELSE m[x]]

\* Environment::default().
DefaultEnvironment ==
  [iar |-> 0, memory |-> [x \in {} |-> 0], poison |-> FALSE]

(***************************************************************************)
(* Devices.  The state of all devices is one record st:                    *)
(*   hex0, hex1       the HexDisplay's two atomics (u16)                   *)
(*   lcd              the LcdDisplay's private fields [turn, x, y, chr]    *)
(*   spawned          the grid tasks LCD commits have spawned and that     *)
(*                    have not run yet, each <<x, y, chr>>                 *)
(*   kbd              the KbdDevice: turn, the captured event (the Mutex's *)
(*                    content), locked (the capture task holds the Mutex), *)
(*                    pc (where the capture task is), and the watch        *)
(*                    channel: its latest value and whether the receiver   *)
(*                    has seen it; since_arm records that a value was sent *)
(*                    after the last arming write                          *)
(*   vga              the VgaDevice's fields and queue, the draw commands  *)
(*                    in the channel to the SDL loop; closed when the SDL  *)
(*                    loop has dropped its receiver                        *)
(***************************************************************************)
Reg(n) == MinI32 + n

HexRegisters == {Reg(3), Reg(4)}

LcdRegisters == {Reg(16), Reg(17), Reg(18), Reg(19)}

KbdRegisters == {Reg(32), Reg(33), Reg(34)}

VgaRegisters == {Reg(96), Reg(97), Reg(98), Reg(99), Reg(100), Reg(101), Reg(102)}

\* DeviceFrame::registers of a device kind.
registers(kind) ==
  CASE kind = "hex" -> HexRegisters
    [] kind = "lcd" -> LcdRegisters
    [] kind = "kbd" -> KbdRegisters
    [] kind = "vga" -> VgaRegisters

DevOk(st, val, redraw) ==
  [tag |-> "Ok", val |-> val, redraw |-> redraw, err |-> "", st |-> st]

DevErr(st, err) ==
  [tag |-> "Err", val |-> 0, redraw |-> FALSE, err |-> err, st |-> st]

Unmapped(st) ==
  [tag |-> "None", val |-> 0, redraw |-> FALSE, err |-> "", st |-> st]

HexSet(st, register, value) ==
  IF register = Reg(3)
  THEN DevOk([st EXCEPT !.hex0 = value % 65536], 0, TRUE)
  ELSE DevOk([st EXCEPT !.hex1 = value % 65536], 0, TRUE)

HexGet(st, register) == DevErr(st, "Unreadable")

LcdSet(st, register, value) ==
  IF st.lcd.turn THEN DevErr(st, "Busy")
  ELSE IF register = Reg(16) THEN
    IF value = 0 THEN DevErr(st, "Unwritable")
    ELSE DevOk([st EXCEPT !.spawned =
                  Append(@, <<st.lcd.x, st.lcd.y, st.lcd.chr>>)], 0, TRUE)
  ELSE IF register = Reg(17) THEN DevOk([st EXCEPT !.lcd.x = value % 16], 0, TRUE)
  ELSE IF register = Reg(18) THEN DevOk([st EXCEPT !.lcd.y = value % 2], 0, TRUE)
  ELSE DevOk([st EXCEPT !.lcd.chr = value % 256], 0, TRUE)

LcdGet(st, register) ==
  IF register = Reg(16) THEN DevOk(st, IF st.lcd.turn THEN 1 ELSE 0, FALSE)
  ELSE DevErr(st, "Unreadable")

\* notify.notify_waiters(): wakes the capture task iff it is parked on
\* notified(); no permit is stored for a task that is not.
notify_waiters(kbd) ==
  IF kbd.pc = "parked" THEN [kbd EXCEPT !.pc = "woken"] ELSE kbd

KbdSetArmingOnAnyWrite(st, register, value) ==
  IF st.kbd.turn THEN DevErr(st, "Busy")
  ELSE DevOk([st EXCEPT !.kbd = notify_waiters([@ EXCEPT !.turn = TRUE,
                                                         !.since_arm = FALSE])],
             0, FALSE)

KbdSet(st, register, value) ==
  IF st.kbd.turn THEN DevErr(st, "Busy")
  ELSE IF register # Reg(32) \/ value # 1 THEN DevErr(st, "Unwritable")
  ELSE DevOk([st EXCEPT !.kbd = notify_waiters([@ EXCEPT !.turn = TRUE,
                                                         !.since_arm = FALSE])],
             0, FALSE)

KbdGet(st, register) ==
  IF register = Reg(32) THEN DevOk(st, IF st.kbd.turn THEN 1 ELSE 0, FALSE)
  ELSE IF st.kbd.turn THEN DevErr(st, "Busy")
  ELSE IF st.kbd.locked THEN DevErr(st, "Busy")
  ELSE IF register = Reg(33)
       THEN DevOk(st, IF st.kbd.event.down THEN 1 ELSE 0, FALSE)
       ELSE DevOk(st, st.kbd.event.keycode, FALSE)

\* mpsc::channel(10), the draw channel.
DRAW_CHANNEL_CAPACITY == 10

VgaSetUnmasked(st, register, value) ==
  IF st.vga.turn THEN DevErr(st, "Busy")
  ELSE IF register = Reg(96) THEN
    IF value = 0 THEN DevErr(st, "Unwritable")
    ELSE IF st.vga.write_mode THEN
      IF st.vga.closed \/ Len(st.vga.queue) >= DRAW_CHANNEL_CAPACITY
      THEN DevErr(st, "Dead")
      ELSE DevOk([st EXCEPT !.vga.queue =
                    Append(@, [x1 |-> st.vga.x1, y1 |-> st.vga.y1,
                               x2 |-> st.vga.x2, y2 |-> st.vga.y2,
                               colour |-> st.vga.colour])], 0, FALSE)
    ELSE DevErr(st, "Dead")
  ELSE IF register = Reg(97) THEN DevOk([st EXCEPT !.vga.write_mode = value > 0], 0, FALSE)
  ELSE IF register = Reg(98) THEN DevOk([st EXCEPT !.vga.x1 = value], 0, FALSE)
  ELSE IF register = Reg(99) THEN DevOk([st EXCEPT !.vga.y1 = value], 0, FALSE)
  ELSE IF register = Reg(100) THEN DevOk([st EXCEPT !.vga.x2 = value], 0, FALSE)
  ELSE IF register = Reg(101) THEN DevOk([st EXCEPT !.vga.y2 = value], 0, FALSE)
  ELSE DevOk([st EXCEPT !.vga.colour = value], 0, FALSE)

VgaSet(st, register, value) ==
  IF st.vga.turn THEN DevErr(st, "Busy")
  ELSE IF register = Reg(96) THEN
    IF value = 0 THEN DevErr(st, "Unwritable")
    ELSE IF st.vga.write_mode THEN
      IF st.vga.closed \/ Len(st.vga.queue) >= DRAW_CHANNEL_CAPACITY
      THEN DevErr(st, "Dead")
      ELSE DevOk([st EXCEPT !.vga.queue =
                    Append(@, [x1 |-> st.vga.x1, y1 |-> st.vga.y1,
                               x2 |-> st.vga.x2, y2 |-> st.vga.y2,
                               colour |-> st.vga.colour])], 0, FALSE)
    ELSE DevErr(st, "Dead")
  ELSE IF register = Reg(97) THEN DevOk([st EXCEPT !.vga.write_mode = value > 0], 0, FALSE)
  ELSE IF register = Reg(98) THEN DevOk([st EXCEPT !.vga.x1 = value % 1024], 0, FALSE)
  ELSE IF register = Reg(99) THEN DevOk([st EXCEPT !.vga.y1 = value % 512], 0, FALSE)
  ELSE IF register = Reg(100) THEN DevOk([st EXCEPT !.vga.x2 = value % 1024], 0, FALSE)
  ELSE IF register = Reg(101) THEN DevOk([st EXCEPT !.vga.y2 = value % 512], 0, FALSE)
  ELSE DevOk([st EXCEPT !.vga.colour = value % 16777216], 0, FALSE)

VgaGet(st, register) ==
  IF register = Reg(96) THEN DevOk(st, IF st.vga.turn THEN 1 ELSE 0, FALSE)
  ELSE DevErr(st, "Unreadable")

\* DeviceFrame::set and DeviceFrame::get, dispatched on the device's kind.
DeviceSet(kind, st, register, value) ==
  CASE kind = "hex" -> HexSet(st, register, value)
    [] kind = "lcd" -> LcdSet(st, register, value)
    [] kind = "kbd" -> KbdSet(st, register, value)
    [] kind = "vga" -> VgaSet(st, register, value)

DeviceGet(kind, st, register) ==
  CASE kind = "hex" -> HexGet(st, register)
    [] kind = "lcd" -> LcdGet(st, register)
    [] kind = "kbd" -> KbdGet(st, register)
    [] kind = "vga" -> VgaGet(st, register)

(***************************************************************************)
(* DeviceArray: devices is the Vec of device kinds, registers the HashMap  *)
(* from a claimed register to the index (from 0) of its device.            *)
(***************************************************************************)
DefaultDeviceArray == [devices |-> <<>>, registers |-> [r \in {} |-> 0]]

register_device(da, kind) ==
  LET idx == Len(da.devices)
  IN  [devices |-> Append(da.devices, kind),
       registers |-> [r \in DOMAIN da.registers \cup registers(kind) |->
                        IF r \in registers(kind) THEN idx ELSE da.registers[r]]]

DeviceArraySet(da, st, register, value) ==
  IF register \in DOMAIN da.registers
  THEN DeviceSet(da.devices[da.registers[register] + 1], st, register, value)
  ELSE Unmapped(st)

DeviceArrayGet(da, st, register) ==
  IF register \in DOMAIN da.registers
  THEN DeviceGet(da.devices[da.registers[register] + 1], st, register)
  ELSE Unmapped(st)

(***************************************************************************)
(* get_mem and set_mem.  The result's tag is "None" (no device claims the  *)
(* address), "Err" (the device's DeviceError, in err) or "Ok".             *)
(***************************************************************************)
get_mem_signed(addr, environment, device_array, st) ==
  IF addr >= MEMORY_SIZE
  THEN DeviceArrayGet(device_array, st, addr)
  ELSE DevOk(st, MemRead(environment.memory, addr), FALSE)

get_mem_above_boundary(addr, environment, device_array, st) ==
  IF UGe(addr, MEMORY_SIZE + 1)
  THEN DeviceArrayGet(device_array, st, addr)
  ELSE DevOk(st, MemRead(environment.memory, addr), FALSE)

get_mem(addr, environment, device_array, st) ==
  IF UGe(addr, MEMORY_SIZE)
  THEN DeviceArrayGet(device_array, st, addr)
  ELSE DevOk(st, MemRead(environment.memory, addr), FALSE)

\* The result also carries the memory after the write, in mem.
SetResult(mem, d) ==
  [tag |-> d.tag, err |-> d.err, redraw |-> d.redraw, st |-> d.st, mem |-> mem]

set_mem(addr, value, environment, device_array, st) ==
  IF UGe(addr, MEMORY_SIZE)
  THEN SetResult(environment.memory,
                 DeviceArraySet(device_array, st, addr, value))
  ELSE SetResult(MemWrite(environment.memory, addr, value), DevOk(st, 0, FALSE))

(***************************************************************************)
(* step.  Its value is [result, env, st]: what it returns and the          *)
(* environment and device state it leaves.  result.kind is "Ok" (with      *)
(* changed, the StepReport's Option as a sequence of length 0 or 1), one   *)
(* of the StepFatal kinds (num: the kind's integer field, error: the       *)
(* DeviceError), or "Panic" when the call does not return.                 *)
(***************************************************************************)
Ret(result, env, st) == [result |-> result, env |-> env, st |-> st]

Fatal(kind, num, error) ==
  [kind |-> kind, num |-> num, error |-> error, changed |-> <<>>]

\* redraw is what the executor's pattern StepReport { redraw, .. } binds:
\* StepReport has no such field that step assigns, and set_mem drops the
\* bool the device returned, so no step reports a redraw.
Report(changed) ==
  [kind |-> "Ok", num |-> <<>>, error |-> "", changed |-> changed,
   redraw |-> FALSE]

Panic == [kind |-> "Panic", num |-> <<>>, error |-> "", changed |-> <<>>]

AccessFatalLosingError(r, index) ==
  IF r.tag = "None" THEN Fatal("InvalidIndex", <<index>>, "")
  ELSE Fatal("DeviceFailure", <<>>, "Dead")

\* .ok_or(InvalidIndex { index })?.map_err(DeviceFailure)? on a failed access.
AccessFatal(r, index) ==
  IF r.tag = "None" THEN Fatal("InvalidIndex", <<index>>, "")
  ELSE Fatal("DeviceFailure", <<>>, r.err)

\* The check at the head of step that rejects the iar.
IarRejected(iar) == UGe(iar, MEMORY_SIZE - 4)

FinishLeavingPoison(env, st, branched, changed) ==
  Ret(Report(changed), [env EXCEPT !.iar = IF branched THEN @ ELSE @ + 4], st)

FinishAlwaysAdvancing(env, st, branched, changed) ==
  Ret(Report(changed), [env EXCEPT !.iar = @ + 4, !.poison = FALSE], st)

\* The end of step after a body that succeeded.
Finish(env, st, branched, changed) ==
  Ret(Report(changed),
      [env EXCEPT !.iar = IF branched THEN @ ELSE @ + 4, !.poison = FALSE],
      st)

\* TRUE iff the exact sum a + b lies outside the i32 range.
AddOverflows(a, b) ==
  \/ a >= 0 /\ b >= 0 /\ a > MaxI32 - b
  \/ a < 0 /\ b < 0 /\ a < MinI32 - b

\* A shift count the << and >> operators accept without overflow.
ShiftInRange(k) == k >= 0 /\ k < 32

BinaryValue(instruction, arg2v, arg3v) ==
  CASE instruction = 1 -> wrapping_add(arg2v, arg3v)
    [] instruction = 2 -> wrapping_sub(arg2v, arg3v)
    [] instruction = 3 -> saturating_mul(arg2v, arg3v)
    [] instruction = 4 -> wrapping_div(arg2v, arg3v)
    [] instruction = 6 -> BitAnd(arg2v, arg3v)
    [] instruction = 7 -> BitOr(arg2v, arg3v)
    [] instruction = 9 -> Shl(arg2v, arg3v % 32)
    [] instruction = 10 -> Shr(arg2v, arg3v % 32)

StepBinary(env, da, st, checks, instruction, arg1, arg2, arg3) ==
  LET r2 == get_mem(arg2, env, da, st) IN
  IF r2.tag # "Ok" THEN Ret(AccessFatal(r2, arg2), env, r2.st) ELSE
  LET r3 == get_mem(arg3, env, da, r2.st) IN
  IF r3.tag # "Ok" THEN Ret(AccessFatal(r3, arg3), env, r3.st) ELSE
  IF instruction = 4 /\ r3.val = 0
  THEN Ret(Fatal("DivisionByZero", <<>>, ""), env, r3.st) ELSE
  IF instruction \in {9, 10} /\ ~ShiftInRange(r3.val) /\ checks
  THEN Ret(Panic, env, r3.st) ELSE
  LET val == BinaryValue(instruction, r2.val, r3.val)
      w == set_mem(arg1, val, env, da, r3.st) IN
  IF w.tag # "Ok" THEN Ret(AccessFatal(w, arg1), env, w.st)
  ELSE Finish([env EXCEPT !.memory = w.mem], w.st, FALSE, <<arg1>>)

StepUnary(env, da, st, instruction, arg1, arg2) ==
  LET r2 == get_mem(arg2, env, da, st) IN
  IF r2.tag # "Ok" THEN Ret(AccessFatal(r2, arg2), env, r2.st) ELSE
  LET val == IF instruction = 5 THEN r2.val ELSE BitNot(r2.val)
      w == set_mem(arg1, val, env, da, r2.st) IN
  IF w.tag # "Ok" THEN Ret(AccessFatal(w, arg1), env, w.st)
  ELSE Finish([env EXCEPT !.memory = w.mem], w.st, FALSE, <<arg1>>)

ArrayIndexWithoutBase(arg2, arg3v) == arg3v

\* let index = arg2 + arg3v
ArrayIndex(arg2, arg3v) == wrapping_add(arg2, arg3v)

StepArray(env, da, st, checks, instruction, arg1, arg2, arg3) ==
  LET r3 == get_mem(arg3, env, da, st) IN
  IF r3.tag # "Ok" THEN Ret(AccessFatal(r3, arg3), env, r3.st) ELSE
  IF AddOverflows(arg2, r3.val) /\ checks THEN Ret(Panic, env, r3.st) ELSE
  LET index == ArrayIndex(arg2, r3.val) IN
  IF instruction = 11 THEN
    LET ri == get_mem(index, env, da, r3.st) IN
    IF ri.tag # "Ok" THEN Ret(AccessFatal(ri, index), env, ri.st) ELSE
    LET w == set_mem(arg1, ri.val, env, da, ri.st) IN
    IF w.tag # "Ok" THEN Ret(AccessFatal(w, arg1), env, w.st)
    ELSE Finish([env EXCEPT !.memory = w.mem], w.st, FALSE, <<arg1>>)
  ELSE
    LET r1 == get_mem(arg1, env, da, r3.st) IN
    IF r1.tag # "Ok" THEN Ret(AccessFatal(r1, arg1), env, r1.st) ELSE
    LET w == set_mem(index, r1.val, env, da, r1.st) IN
    IF w.tag # "Ok" THEN Ret(AccessFatal(w, index), env, w.st)
    ELSE Finish([env EXCEPT !.memory = w.mem], w.st, FALSE, <<index>>)

\* The predicate of a branch instruction.
BranchTaken(instruction, arg2v, arg3v) ==
  CASE instruction = 13 -> arg2v = arg3v
    [] instruction = 14 -> arg2v # arg3v
    [] instruction = 15 -> arg2v < arg3v

StepBranchStoring(env, da, st, instruction, arg1, arg2, arg3) ==
  LET r2 == get_mem(arg2, env, da, st) IN
  IF r2.tag # "Ok" THEN Ret(AccessFatal(r2, arg2), env, r2.st) ELSE
  LET r3 == get_mem(arg3, env, da, r2.st) IN
  IF r3.tag # "Ok" THEN Ret(AccessFatal(r3, arg3), env, r3.st) ELSE
  IF BranchTaken(instruction, r2.val, r3.val)
  THEN Finish([env EXCEPT !.iar = arg1], r3.st, TRUE, <<>>)
  ELSE Finish([env EXCEPT !.memory = MemWrite(@, arg1 % MEMORY_SIZE, 1)],
              r3.st, FALSE, <<>>)

StepBranch(env, da, st, instruction, arg1, arg2, arg3) ==
  LET r2 == get_mem(arg2, env, da, st) IN
  IF r2.tag # "Ok" THEN Ret(AccessFatal(r2, arg2), env, r2.st) ELSE
  LET r3 == get_mem(arg3, env, da, r2.st) IN
  IF r3.tag # "Ok" THEN Ret(AccessFatal(r3, arg3), env, r3.st) ELSE
  IF BranchTaken(instruction, r2.val, r3.val)
  THEN Finish([env EXCEPT !.iar = arg1], r3.st, TRUE, <<>>)
  ELSE Finish(env, r3.st, FALSE, <<>>)

StepCallJumpingFirst(env, da, st, arg1, arg2) ==
  LET w == set_mem(arg2, env.iar + 4, env, da, st) IN
  IF w.tag # "Ok" THEN Ret(AccessFatal(w, arg2), [env EXCEPT !.iar = arg1], w.st)
  ELSE Finish([env EXCEPT !.memory = w.mem, !.iar = arg1], w.st, TRUE, <<>>)

StepCallLinkingItself(env, da, st, arg1, arg2) ==
  LET w == set_mem(arg2, env.iar, env, da, st) IN
  IF w.tag # "Ok" THEN Ret(AccessFatal(w, arg2), env, w.st)
  ELSE Finish([env EXCEPT !.memory = w.mem, !.iar = arg1], w.st, TRUE, <<>>)

StepCall(env, da, st, arg1, arg2) ==
  LET w == set_mem(arg2, env.iar + 4, env, da, st) IN
  IF w.tag # "Ok" THEN Ret(AccessFatal(w, arg2), env, w.st)
  ELSE Finish([env EXCEPT !.memory = w.mem, !.iar = arg1], w.st, TRUE, <<>>)

StepRet(env, da, st, arg1) ==
  LET r1 == get_mem(arg1, env, da, st) IN
  IF r1.tag # "Ok" THEN Ret(AccessFatal(r1, arg1), env, r1.st)
  ELSE Finish([env EXCEPT !.iar = r1.val], r1.st, TRUE, <<>>)

\* The match arm an opcode selects; "invalid" is the `_` arm.
InstructionClassTo18(instruction) ==
  CASE instruction \in {1, 2, 3, 4, 6, 7, 9, 10} -> "binary"
    [] instruction \in {5, 8} -> "unary"
    [] instruction \in {11, 12} -> "array"
    [] instruction \in {13, 14, 15} -> "branch"
    [] instruction = 16 -> "call"
    [] instruction \in {17, 18} -> "ret"
    [] OTHER -> "invalid"

InstructionClass(instruction) ==
  CASE instruction \in {1, 2, 3, 4, 6, 7, 9, 10} -> "binary"
    [] instruction \in {5, 8} -> "unary"
    [] instruction \in {11, 12} -> "array"
    [] instruction \in {13, 14, 15} -> "branch"
    [] instruction = 16 -> "call"
    [] instruction = 17 -> "ret"
    [] OTHER -> "invalid"

NotPoisoned(environment) == environment

\* environment.poison = true, before anything else is done.
Poisoned(environment) == [environment EXCEPT !.poison = TRUE]

step(environment, device_array, st, checks) ==
  IF environment.poison
  THEN Ret(Fatal("AlreadyPoisoned", <<>>, ""), environment, st) ELSE
  LET env == Poisoned(environment) IN
  IF IarRejected(env.iar)
  THEN Ret(Fatal("InvalidIAR", <<env.iar>>, ""), env, st) ELSE
  LET instruction == MemRead(env.memory, env.iar)
      arg1 == MemRead(env.memory, env.iar + 1)
      arg2 == MemRead(env.memory, env.iar + 2)
      arg3 == MemRead(env.memory, env.iar + 3)
      class == InstructionClass(instruction)
  IN  CASE class = "binary" ->
             StepBinary(env, device_array, st, checks, instruction, arg1, arg2, arg3)
        [] class = "unary" ->
             StepUnary(env, device_array, st, instruction, arg1, arg2)
        [] class = "array" ->
             StepArray(env, device_array, st, checks, instruction, arg1, arg2, arg3)
        [] class = "branch" ->
             StepBranch(env, device_array, st, instruction, arg1, arg2, arg3)
        [] class = "call" -> StepCall(env, device_array, st, arg1, arg2)
        [] class = "ret" -> StepRet(env, device_array, st, arg1)
        [] OTHER -> Ret(Fatal("InvalidInstruction", <<instruction>>, ""), env, st)

(***************************************************************************)
(* State.                                                                  *)
(*   environment      the Environment the executor and the UI share        *)
(*   device_array     the DeviceArray (the bus)                            *)
(*   device_state     the devices' state (see Devices)                     *)
(*   lcd_grid         the LCD's shared 2 x 14 character grid               *)
(*   lcd_task_panicked  a spawned grid task indexed outside the grid       *)
(*   overflow_checks  the build traps on integer overflow (debug profile)  *)
(*   panicked         a step call panicked: the executor task is gone      *)
(*   outcome          what the last step call returned; kind "None" when   *)
(*                    the UI has acted on the environment since            *)
(*   before           the environment and device state that call entered   *)
(*   steps, loads     step calls since the last Load; Loads so far         *)
(* The executor task and the UI task:                                      *)
(*   running          the AtomicBool both share                            *)
(*   mutex            who holds the environment's Mutex: "free",           *)
(*                    "executor" or "ui"                                   *)
(*   pc               where Executor::process is                           *)
(*   guard            process's local guard is Some                        *)
(*   failure          the error e of the Err arm process is in             *)
(*   ui               where the UI's run loop is                           *)
(*   rx               the reports in the channel to the UI, oldest first   *)
(***************************************************************************)
VARIABLES environment, device_array, device_state, lcd_grid,
          lcd_task_panicked, overflow_checks, panicked,
          outcome, before, steps, loads,
          running, mutex, pc, guard, failure, ui, rx

vars == <<environment, device_array, device_state, lcd_grid,
          lcd_task_panicked, overflow_checks, panicked,
          outcome, before, steps, loads,
          running, mutex, pc, guard, failure, ui, rx>>

\* The state of the two tasks.
taskVars == <<running, mutex, pc, guard, failure, ui, rx>>

\* Bounds of the exploration.
MaxSteps == 3
MaxLoads == 2
MaxSmall == 2
MaxSpawned == 2

NoOutcome == [kind |-> "None", num |-> <<>>, error |-> "", changed |-> <<>>]

\* Keycode::A, the keycode of SdlKbdEvent::default(), and another key.
KEYCODE_A == 97
KEYCODE_B == 98

\* SdlKbdEvent::default().
DefaultKbdEvent == [down |-> FALSE, keycode |-> KEYCODE_A]

InitialDeviceState ==
  [hex0 |-> 0, hex1 |-> 0,
   lcd |-> [turn |-> FALSE, x |-> 0, y |-> 0, chr |-> 0],
   spawned |-> <<>>,
   kbd |-> [turn |-> FALSE, event |-> DefaultKbdEvent, locked |-> FALSE,
            since_arm |-> FALSE,
            pc |-> "start", latest |-> DefaultKbdEvent, unseen |-> FALSE],
   vga |-> [turn |-> FALSE, write_mode |-> TRUE, x1 |-> 0, y1 |-> 0,
            x2 |-> 0, y2 |-> 0, colour |-> 0, queue |-> <<>>,
            closed |-> FALSE]]

\* The bus main() builds: the LCD registered first, then the hex display.
MainDeviceArray ==
  register_device(register_device(DefaultDeviceArray, "lcd"), "hex")

(***************************************************************************)
(* The program images the UI loads.  Environment::parse leaves iar = 0 and *)
(* poison clear, so an image is a memory; cells outside the array are not  *)
(* part of an image.                                                       *)
(***************************************************************************)
RECURSIVE MemOf(_)
MemOf(cells) ==
  IF cells = <<>> THEN [x \in {} |-> 0]
  ELSE LET c == cells[Len(cells)]
           m == MemOf(SubSeq(cells, 1, Len(cells) - 1))
       IN  IF c[1] >= 0 /\ c[1] < MEMORY_SIZE THEN MemWrite(m, c[1], c[2]) ELSE m

QuadAt(p, op, a1, a2, a3) ==
  << <<p, op>>, <<p + 1, a1>>, <<p + 2, a2>>, <<p + 3, a3>> >>

OpCodes == (-1 .. 18) \cup {MinI32, MaxI32}

Values == (-1 .. MaxSmall) \cup {MinI32, MaxI32}

\* One instruction at 0 on the cells 20, 24, 28, over all opcodes and values.
ProgArith ==
  { MemOf(QuadAt(0, op, 20, 24, 28) \o << <<20, v1>>, <<24, v2>>, <<28, v3>> >>) :
      op \in OpCodes, v1 \in {0, 99}, v2 \in Values, v3 \in Values }

\* A local cell, the first address of device space (unclaimed), a hex
\* display register and the LCD's commit register.
AddrKinds == {20, MEMORY_SIZE, Reg(3), Reg(16)}

\* One instruction at 0 over all kinds of operand address.
ProgAddr ==
  { MemOf(QuadAt(0, op, a1, a2, a3) \o << <<20, 5>> >>) :
      op \in 0 .. 17, a1 \in AddrKinds, a2 \in AddrKinds, a3 \in AddrKinds }

JumpTargets ==
  {13, 40, MEMORY_SIZE - 8, MEMORY_SIZE - 5, MEMORY_SIZE - 4, MEMORY_SIZE - 3,
   MEMORY_SIZE - 1, MEMORY_SIZE, -4, MinI32, MaxI32}

\* A taken BEQ, a CAL or a RET at 0 that transfers to p, and a quad at p.
JumpQuad(how, p) ==
  CASE how = 13 -> QuadAt(0, 13, p, 0, 0)
    [] how = 16 -> QuadAt(0, 16, p, 100, 0)
    [] how = 17 -> QuadAt(0, 17, 100, 0, 0) \o << <<100, p>> >>

ProgJump ==
  { MemOf(JumpQuad(how, p) \o
          (IF p >= 0 /\ p < MEMORY_SIZE THEN QuadAt(p, op, 20, 24, 28) ELSE <<>>) \o
          << <<24, 7>>, <<28, 1>> >>) :
      how \in {13, 16, 17}, p \in JumpTargets, op \in {0, 1, 18} }

\* A CAL at p (reached by a BEQ at 0 when p # 0) to t with link l, and a RET
\* at t that names l2.
ProgCall ==
  { MemOf((IF p # 0 THEN QuadAt(0, 13, p, 0, 0) ELSE <<>>) \o
          QuadAt(t, 17, l2, 0, 0) \o QuadAt(p, 16, t, l, 0)) :
      p \in {0, 13, 200}, t \in {40, 60},
      l \in {100, 40, 41, 1, 2, MEMORY_SIZE, Reg(3)}, l2 \in {100, 40, 41, 1, 2} }

Images == ProgArith \cup ProgAddr \cup ProgJump \cup ProgCall

\* What a later Load installs: the empty image, and a MOV to the hex display.
Reloads ==
  { MemOf(<<>>), MemOf(QuadAt(0, 5, Reg(4), 20, 0) \o << <<20, 65537>> >>) }

(***************************************************************************)
(* Actions.                                                                *)
(***************************************************************************)
\* Executor::new and tokio::spawn(exec.process()): running is false, nobody
\* holds the Mutex, the channel is empty, process is at the head of its loop
\* and the UI is in its select!.
TasksAtStart ==
  /\ running = FALSE
  /\ mutex = "free"
  /\ pc = "check"
  /\ guard = FALSE
  /\ failure = NoOutcome
  /\ ui = "select"
  /\ rx = <<>>

Init ==
  /\ environment = DefaultEnvironment
  /\ device_array = MainDeviceArray
  /\ device_state = InitialDeviceState
  /\ lcd_grid = [y \in 0 .. 1 |-> [x \in 0 .. 13 |-> 0]]
  /\ lcd_task_panicked = FALSE
  /\ overflow_checks \in BOOLEAN
  /\ panicked = FALSE
  /\ outcome = NoOutcome
  /\ before = [env |-> DefaultEnvironment, st |-> InitialDeviceState]
  /\ steps = 0
  /\ loads = 0
  /\ TasksAtStart

\* The UI's Load: *guard = environment.clone(), the assembled image.
Load(image) ==
  /\ loads < MaxLoads
  /\ environment' = [iar |-> 0, memory |-> image, poison |-> FALSE]
  /\ outcome' = NoOutcome
  /\ before' = [env |-> environment', st |-> device_state]
  /\ steps' = 0
  /\ loads' = loads + 1
  /\ UNCHANGED <<device_array, device_state, lcd_grid, lcd_task_panicked,
                 overflow_checks, panicked,
                 taskVars>>

\* The UI's Reset (Esc): guard.iar = 0.
Reset ==
  /\ environment' = [environment EXCEPT !.iar = 0]
  /\ outcome' = NoOutcome
  /\ before' = [env |-> environment', st |-> device_state]
  /\ UNCHANGED <<device_array, device_state, lcd_grid, lcd_task_panicked,
                 overflow_checks, panicked, steps, loads,
                 taskVars>>

\* One call of step by the executor.
Step ==
  /\ ~panicked
  /\ steps < MaxSteps
  /\ LET r == step(environment, device_array, device_state, overflow_checks)
     IN  /\ Len(r.st.spawned) <= MaxSpawned
         /\ environment' = r.env
         /\ device_state' = r.st
         /\ outcome' = r.result
         /\ panicked' = (r.result.kind = "Panic")
  /\ before' = [env |-> environment, st |-> device_state]
  /\ steps' = steps + 1
  /\ UNCHANGED <<device_array, lcd_grid, lcd_task_panicked, overflow_checks, loads,
                 taskVars>>

\* A grid task an LCD commit spawned runs: guard[y][x] = chr.
LcdTask(i) ==
  /\ i \in 1 .. Len(device_state.spawned)
  /\ LET t == device_state.spawned[i]
     IN  IF t[1] < 14
         THEN /\ lcd_grid' = [lcd_grid EXCEPT ![t[2]][t[1]] = t[3]]
              /\ UNCHANGED lcd_task_panicked
         ELSE /\ lcd_task_panicked' = TRUE
              /\ UNCHANGED lcd_grid
  /\ device_state' = [device_state EXCEPT !.spawned =
       SubSeq(@, 1, i - 1) \o SubSeq(@, i + 1, Len(@))]
  /\ UNCHANGED <<environment, device_array, overflow_checks, panicked,
                 outcome, before, steps, loads,
                 taskVars>>

Next ==
  \/ \E image \in (IF loads = 0 THEN Images ELSE Reloads) : Load(image)
  \/ Reset
  \/ Step
  \/ \E i \in 1 .. MaxSpawned : LcdTask(i)

Spec == Init /\ [][Next]_vars

(***************************************************************************)
(* The machine with all four peripherals on the bus: the keyboard's        *)
(* capture task, the SDL loop that sends keyboard events and receives draw *)
(* commands, and programs that address every device.                       *)
(***************************************************************************)
FullDeviceArray ==
  register_device(register_device(MainDeviceArray, "kbd"), "vga")

\* remote_notify.notified(): the capture task parks until it is notified.
KbdPark ==
  /\ device_state.kbd.pc = "start"
  /\ device_state' = [device_state EXCEPT !.kbd.pc = "parked"]
  /\ UNCHANGED <<environment, device_array, lcd_grid, lcd_task_panicked,
                 overflow_checks, panicked, outcome, before, steps, loads,
                 taskVars>>

\* remote_event_handle.lock().await, after the wake.
KbdLock ==
  /\ device_state.kbd.pc = "woken"
  /\ ~device_state.kbd.locked
  /\ device_state' = [device_state EXCEPT !.kbd.pc = "holding",
                                          !.kbd.locked = TRUE]
  /\ UNCHANGED <<environment, device_array, lcd_grid, lcd_task_panicked,
                 overflow_checks, panicked, outcome, before, steps, loads,
                 taskVars>>

\* kbd_ev_rx.changed().await returns on a value the receiver has not seen;
\* *guard = kbd_ev_rx.borrow().clone(); drop(guard).
KbdCapture ==
  /\ device_state.kbd.pc = "holding"
  /\ device_state.kbd.unseen
  /\ device_state' = [device_state EXCEPT !.kbd.event = device_state.kbd.latest,
                                          !.kbd.unseen = FALSE,
                                          !.kbd.locked = FALSE,
                                          !.kbd.pc = "captured"]
  /\ UNCHANGED <<environment, device_array, lcd_grid, lcd_task_panicked,
                 overflow_checks, panicked, outcome, before, steps, loads,
                 taskVars>>

\* remote_turn.store(false), and the loop starts over.
KbdClearTurn ==
  /\ device_state.kbd.pc = "captured"
  /\ device_state' = [device_state EXCEPT !.kbd.turn = FALSE,
                                          !.kbd.pc = "start"]
  /\ UNCHANGED <<environment, device_array, lcd_grid, lcd_task_panicked,
                 overflow_checks, panicked, outcome, before, steps, loads,
                 taskVars>>

\* The key events the SDL loop sends.
KbdEvents == [down : BOOLEAN, keycode : {KEYCODE_B}]

\* kbd_ev_tx.send(ev): the watch channel keeps the last value only.
SdlKbdSend(ev) ==
  /\ device_state' = [device_state EXCEPT !.kbd.latest = ev,
                                          !.kbd.unseen = TRUE,
                                          !.kbd.since_arm = TRUE]
  /\ UNCHANGED <<environment, device_array, lcd_grid, lcd_task_panicked,
                 overflow_checks, panicked, outcome, before, steps, loads,
                 taskVars>>

\* draw_cmd_rx.recv() in the SDL loop takes the oldest draw command.
SdlDrawRecv ==
  /\ ~device_state.vga.closed
  /\ device_state.vga.queue # <<>>
  /\ device_state' = [device_state EXCEPT !.vga.queue = Tail(@)]
  /\ UNCHANGED <<environment, device_array, lcd_grid, lcd_task_panicked,
                 overflow_checks, panicked, outcome, before, steps, loads,
                 taskVars>>

\* MOV destination, source pairs over the devices' registers; the cells
\* 100, 101 and 102 hold 1, 0 and 2, and 110 is a scratch cell.
DeviceMoves ==
  { <<Reg(32), 100>>, <<Reg(32), 102>>, <<Reg(33), 100>>, <<Reg(34), 100>>,
    <<110, Reg(32)>>, <<110, Reg(33)>>, <<110, Reg(34)>>,
    <<Reg(97), 101>>, <<Reg(96), 100>>, <<Reg(96), 101>>,
    <<110, Reg(3)>>, <<Reg(16), 100>> }

\* The moves a program starts with.
FirstMoves ==
  { <<Reg(32), 100>>, <<Reg(32), 102>>, <<Reg(97), 101>>, <<Reg(96), 100>>,
    <<110, Reg(3)>>, <<Reg(16), 100>> }

\* The keyboard is armed, then one instruction of any opcode runs on a local
\* cell and a keyboard register.
ArmedImages ==
  { MemOf(QuadAt(0, 5, Reg(32), 100, 0) \o QuadAt(4, op, a1, a2, a3) \o
          << <<100, 1>>, <<20, 3>> >>) :
      op \in 1 .. 17, a1 \in {20, Reg(33)}, a2 \in {20, Reg(33)},
      a3 \in {20, Reg(33)} }

DeviceImages ==
  { MemOf(QuadAt(0, 5, m1[1], m1[2], 0) \o QuadAt(4, 5, m2[1], m2[2], 0) \o
          QuadAt(8, 5, m3[1], m3[2], 0) \o
          << <<100, 1>>, <<102, 2>> >>) :
      m1 \in FirstMoves, m2 \in DeviceMoves, m3 \in DeviceMoves }

InitDevices ==
  /\ environment = DefaultEnvironment
  /\ device_array = FullDeviceArray
  /\ device_state = InitialDeviceState
  /\ lcd_grid = [y \in 0 .. 1 |-> [x \in 0 .. 13 |-> 0]]
  /\ lcd_task_panicked = FALSE
  /\ overflow_checks \in BOOLEAN
  /\ panicked = FALSE
  /\ outcome = NoOutcome
  /\ before = [env |-> DefaultEnvironment, st |-> InitialDeviceState]
  /\ steps = 0
  /\ loads = 0
  /\ TasksAtStart

NextDevices ==
  \/ loads = 0 /\ \E image \in DeviceImages \cup ArmedImages : Load(image)
  \/ Step
  \/ \E i \in 1 .. MaxSpawned : LcdTask(i)
  \/ KbdPark
  \/ KbdLock
  \/ KbdCapture
  \/ KbdClearTurn
  \/ \E ev \in KbdEvents : SdlKbdSend(ev)
  \/ SdlDrawRecv

SpecDevices == InitDevices /\ [][NextDevices]_vars

(***************************************************************************)
(* The bus alone: devices of the four kinds are registered one after the   *)
(* other, in any order and any number of each, on DeviceArray::default().  *)
(***************************************************************************)
\* The most devices registered.
MaxDevices == 4

DeviceKinds == {"lcd", "hex", "kbd", "vga"}

InitBus ==
  /\ environment = DefaultEnvironment
  /\ device_array = DefaultDeviceArray
  /\ device_state = InitialDeviceState
  /\ lcd_grid = [y \in 0 .. 1 |-> [x \in 0 .. 13 |-> 0]]
  /\ lcd_task_panicked = FALSE
  /\ overflow_checks \in BOOLEAN
  /\ panicked = FALSE
  /\ outcome = NoOutcome
  /\ before = [env |-> DefaultEnvironment, st |-> InitialDeviceState]
  /\ steps = 0
  /\ loads = 0
  /\ TasksAtStart

\* device_array.register_device(Box::new(device))
RegisterDevice(kind) ==
  /\ Len(device_array.devices) < MaxDevices
  /\ device_array' = register_device(device_array, kind)
  /\ UNCHANGED <<environment, device_state, lcd_grid, lcd_task_panicked,
                 overflow_checks, panicked, outcome, before, steps, loads,
                 taskVars>>

NextBus == \E kind \in DeviceKinds : RegisterDevice(kind)

SpecBus == InitBus /\ [][NextBus]_vars

(***************************************************************************)
(* The image loader.  An image file is held as its captures in file order, *)
(* in runs: count consecutive entries "addr: text;" with the same declared *)
(* address and the same digits.  fits says whether the digits parse as an  *)
(* i32 and val is then their value.                                        *)
(***************************************************************************)
ParseOk(memory) == [tag |-> "Ok", memory |-> memory]
ParseErr == [tag |-> "Err", memory |-> [x \in {} |-> 0]]
ParsePanic == [tag |-> "Panic", memory |-> [x \in {} |-> 0]]

\* env.memory[index] = val, for the count entries of one run from index on.
StoreRun(memory, index, count, val) ==
  LET cells == index .. (index + count - 1)
  IN  [x \in (DOMAIN memory \ cells) \cup (IF val = 0 THEN {} ELSE cells) |->
         IF x \in cells THEN val ELSE memory[x]]

\* The loop of Environment::parse from capture number index on.  val? is
\* evaluated before the place env.memory[index], so digits that do not fit
\* return the error even past the end of the array; an index of 16384 or
\* more with digits that fit fails the bounds check of the array.
RECURSIVE ParseFrom(_, _, _)
ParseFrom(runs, index, memory) ==
  IF runs = <<>> THEN ParseOk(memory)
  ELSE LET r == Head(runs)
       IN  IF ~r.fits THEN ParseErr
           ELSE IF index + r.count > MEMORY_SIZE THEN ParsePanic
           ELSE ParseFrom(Tail(runs), index + r.count,
                          StoreRun(memory, index, r.count, r.val))

\* Environment::parse(reader)
parse(file) == ParseFrom(file, 0, DefaultEnvironment.memory)

\* The runs the images are made of: short runs of entries, an entry whose
\* digits do not fit an i32, and long runs of "0: 0;" that bring the capture
\* number next to the end of the array.
ImageRuns ==
  {[count |-> 1, addr |-> 0, fits |-> TRUE, val |-> 7],
   [count |-> 1, addr |-> 9, fits |-> TRUE, val |-> -1],
   [count |-> 2, addr |-> 5, fits |-> TRUE, val |-> 7],
   [count |-> 1, addr |-> 3, fits |-> TRUE, val |-> 0],
   [count |-> 1, addr |-> 0, fits |-> FALSE, val |-> 0],
   [count |-> MEMORY_SIZE - 2, addr |-> 0, fits |-> TRUE, val |-> 0],
   [count |-> MEMORY_SIZE - 1, addr |-> 0, fits |-> TRUE, val |-> 0]}

ImageFiles ==
  {<<a>> : a \in ImageRuns}
    \cup {<<a, b>> : a \in ImageRuns, b \in ImageRuns}
    \cup {<<a, b, c>> : a \in ImageRuns, b \in ImageRuns, c \in ImageRuns}

Assembled == [kind |-> "Assembled", num |-> <<>>, error |-> "", changed |-> <<>>]
ParseError == [kind |-> "ParseError", num |-> <<>>, error |-> "", changed |-> <<>>]

\* The UI's Assemble on the selected file and the Load of what it gave:
\* Environment::parse(&mut File::open(filepath)?)? and *guard = environment.
\* An Err leaves main through the ? operator, a panic ends the program.
Assemble(file) ==
  LET parsed == parse(file)
  IN  /\ ~panicked
      /\ outcome.kind # "ParseError"
      /\ loads < MaxLoads
      /\ before' = [env |-> environment, st |-> device_state, file |-> file]
      /\ loads' = loads + 1
      /\ steps' = 0
      /\ environment' = IF parsed.tag = "Ok"
                          THEN [iar |-> 0, memory |-> parsed.memory,
                                poison |-> FALSE]
                          ELSE environment
      /\ outcome' = IF parsed.tag = "Err" THEN ParseError
                    ELSE IF parsed.tag = "Ok" THEN Assembled ELSE outcome
      /\ panicked' = (parsed.tag = "Panic")
      /\ UNCHANGED <<device_array, device_state, lcd_grid, lcd_task_panicked,
                     overflow_checks, taskVars>>

NextParse == \E file \in ImageFiles : Assemble(file)

SpecParse == InitBus /\ [][NextParse]_vars

(***************************************************************************)
(* The LCD alone, on main's bus: programs of three MOVs that write the     *)
(* cursor, the character and the commit register from the cells 100..103.  *)
(***************************************************************************)
LcdMoves ==
  { <<Reg(17), 100>>, <<Reg(18), 101>>, <<Reg(19), 102>>, <<Reg(16), 103>> }

LcdImages ==
  { MemOf(QuadAt(0, 5, m1[1], m1[2], 0) \o QuadAt(4, 5, m2[1], m2[2], 0) \o
          QuadAt(8, 5, m3[1], m3[2], 0) \o
          << <<100, x>>, <<101, y>>, <<102, 65>>, <<103, 1>> >>) :
      m1 \in LcdMoves, m2 \in LcdMoves, m3 \in LcdMoves,
      x \in {0, 13, 14, 15, 29, -1}, y \in {0, 1, 3} }

NextLcd ==
  \/ loads = 0 /\ \E image \in LcdImages : Load(image)
  \/ Step
  \/ \E i \in 1 .. MaxSpawned : LcdTask(i)

SpecLcd == Init /\ [][NextLcd]_vars

(***************************************************************************)
(* The VGA device: programs that write two of its registers and commit, in *)
(* a loop, while the SDL loop takes draw commands or ends.                 *)
(***************************************************************************)
\* One call of step in a run of any length; steps counts up to MaxSteps.
RunStep ==
  /\ ~panicked
  /\ LET r == step(environment, device_array, device_state, overflow_checks)
     IN  /\ Len(r.st.spawned) <= MaxSpawned
         /\ environment' = r.env
         /\ device_state' = r.st
         /\ outcome' = r.result
         /\ panicked' = (r.result.kind = "Panic")
  /\ before' = [env |-> environment, st |-> device_state]
  /\ steps' = IF steps < MaxSteps THEN steps + 1 ELSE steps
  /\ UNCHANGED <<device_array, lcd_grid, lcd_task_panicked, overflow_checks, loads,
                 taskVars>>

\* The SDL loop ends (`else => break`): its receiver is dropped and with it
\* the commands still in the channel.
SdlDrawClose ==
  /\ ~device_state.vga.closed
  /\ device_state' = [device_state EXCEPT !.vga.closed = TRUE,
                                          !.vga.queue = <<>>]
  /\ UNCHANGED <<environment, device_array, lcd_grid, lcd_task_panicked,
                 overflow_checks, panicked, outcome, before, steps, loads,
                 taskVars>>

\* MOV r1 <- a; MOV r2 <- b; MOV commit <- c; BEQ back to 0.
VgaImages ==
  { MemOf(QuadAt(0, 5, r1, 100, 0) \o QuadAt(4, 5, r2, 101, 0) \o
          QuadAt(8, 5, Reg(96), 102, 0) \o QuadAt(12, 13, 0, 103, 103) \o
          << <<100, a>>, <<101, b>>, <<102, c>> >>) :
      r1 \in {Reg(97), Reg(98), Reg(102)},
      r2 \in {Reg(98), Reg(99), Reg(100), Reg(101)},
      a \in {0, 1, -1, 1034},
      b \in {-1, 515},
      c \in {0, 1, -1} }

NextVga ==
  \/ loads = 0 /\ \E image \in VgaImages : Load(image)
  \/ RunStep
  \/ SdlDrawRecv
  \/ SdlDrawClose

SpecVga == InitDevices /\ [][NextVga]_vars

(***************************************************************************)
(* The keyboard alone: programs of three MOVs that arm it and then write   *)
(* or read its registers, its capture task, and the keys SDL sends.        *)
(***************************************************************************)
KbdMoves ==
  { <<Reg(32), 100>>, <<Reg(32), 102>>, <<Reg(33), 100>>,
    <<110, Reg(32)>>, <<110, Reg(33)>>, <<111, Reg(34)>> }

KbdImages ==
  { MemOf(QuadAt(0, 5, Reg(32), 100, 0) \o QuadAt(4, 5, m2[1], m2[2], 0) \o
          QuadAt(8, 5, m3[1], m3[2], 0) \o
          << <<100, 1>>, <<102, 2>> >>) :
      m2 \in KbdMoves, m3 \in KbdMoves }

\* The capture task's next operation.
KbdTaskNext ==
  \/ KbdPark
  \/ KbdLock
  \/ KbdCapture
  \/ KbdClearTurn

\* SDL sends a key event.
SdlKbdNext == \E ev \in KbdEvents : SdlKbdSend(ev)

NextKbd ==
  \/ loads = 0 /\ \E image \in KbdImages : Load(image)
  \/ Step
  \/ KbdTaskNext
  \/ SdlKbdNext

SpecKbd == InitDevices /\ [][NextKbd]_vars

\* The runtime polls the capture task again whenever it can go on, and keys
\* keep arriving from SDL.
FairSpecKbd ==
  /\ InitDevices
  /\ [][NextKbd]_vars
  /\ WF_vars(KbdTaskNext)
  /\ WF_vars(SdlKbdNext)

(***************************************************************************)
(* The executor task (Executor::process) and the UI task (run), one action *)
(* per atomic operation or await of either.  The tasks run on the          *)
(* multi-threaded runtime, so their actions interleave freely.             *)
(***************************************************************************)
\* What neither task's own bookkeeping touches.
machineVars == <<environment, device_array, device_state, lcd_grid,
                 lcd_task_panicked, overflow_checks, panicked,
                 outcome, before, steps, loads>>

\* main has not returned: the runtime still polls the executor task.
Alive == ui # "done"

\* if self.running.load(Acquire): with the guard to step, without it to
\* lock(); else to the release of the guard.
ExecCheckSkippingLock ==
  /\ Alive /\ pc = "check"
  /\ pc' = IF running THEN "step" ELSE "drop"
  /\ UNCHANGED <<machineVars, running, mutex, guard, failure, ui, rx>>

ExecCheck ==
  /\ Alive /\ pc = "check"
  /\ pc' = IF running THEN (IF guard THEN "step" ELSE "lock") ELSE "drop"
  /\ UNCHANGED <<machineVars, running, mutex, guard, failure, ui, rx>>

\* guard = Some(self.environment.lock().await)
ExecLock ==
  /\ Alive /\ pc = "lock" /\ mutex = "free"
  /\ mutex' = "executor"
  /\ guard' = TRUE
  /\ pc' = "step"
  /\ UNCHANGED <<machineVars, running, failure, ui, rx>>

\* match step(env, &mut self.device_array): Ok sends Redraw if asked to and
\* goes to the yield; Err(e) enters the Err arm; a panic unwinds the task,
\* which drops the guard.
ExecStep ==
  /\ Alive /\ pc = "step"
  /\ LET r == step(environment, device_array, device_state, overflow_checks)
     IN  /\ environment' = r.env
         /\ device_state' = r.st
         /\ outcome' = r.result
         /\ panicked' = (r.result.kind = "Panic")
         /\ pc' = CASE r.result.kind = "Ok" -> "yield"
                    [] r.result.kind = "Panic" -> "dead"
                    [] OTHER -> "fail_drop"
         /\ failure' = IF r.result.kind \in {"Ok", "Panic"} THEN failure
                       ELSE r.result
         /\ rx' = IF r.result.kind = "Ok" /\ r.result.redraw
                  THEN Append(rx, [report |-> "Redraw", error |-> NoOutcome])
                  ELSE rx
         /\ mutex' = IF r.result.kind = "Panic" /\ guard THEN "free" ELSE mutex
         /\ guard' = IF r.result.kind = "Panic" THEN FALSE ELSE guard
  /\ before' = [env |-> environment, st |-> device_state]
  /\ steps' = IF steps < MaxSteps THEN steps + 1 ELSE steps
  /\ UNCHANGED <<device_array, lcd_grid, lcd_task_panicked, overflow_checks,
                 loads, running, ui>>

\* std::mem::drop(guard.take()) in the Err arm.
ExecFailDrop ==
  /\ Alive /\ pc = "fail_drop"
  /\ mutex' = IF guard THEN "free" ELSE mutex
  /\ guard' = FALSE
  /\ pc' = "fail_store"
  /\ UNCHANGED <<machineVars, running, failure, ui, rx>>

\* self.running.store(false, Release) in the Err arm.
ExecFailStore ==
  /\ Alive /\ pc = "fail_store"
  /\ running' = FALSE
  /\ pc' = "fail_send"
  /\ UNCHANGED <<machineVars, mutex, guard, failure, ui, rx>>

\* self.tx.send(ExecutorReport::Failure { error: e })
ExecFailSend ==
  /\ Alive /\ pc = "fail_send"
  /\ rx' = Append(rx, [report |-> "Failure", error |-> failure])
  /\ pc' = "yield"
  /\ UNCHANGED <<machineVars, running, mutex, guard, failure, ui>>

\* tokio::task::yield_now().await
ExecYield ==
  /\ Alive /\ pc = "yield"
  /\ pc' = "check"
  /\ UNCHANGED <<machineVars, running, mutex, guard, failure, ui, rx>>

\* if guard.is_some() { drop(guard.take()) }, then self.notify.notified():
\* nothing ever notifies, so the task stays there.
ExecDrop ==
  /\ Alive /\ pc = "drop"
  /\ mutex' = IF guard THEN "free" ELSE mutex
  /\ guard' = FALSE
  /\ pc' = "notified"
  /\ UNCHANGED <<machineVars, running, failure, ui, rx>>

\* The most reports the channel holds when the UI starts another run.
MaxReports == 1

\* Esc: running.store(false), then environment.lock().await.
UiEsc ==
  /\ ui = "select"
  /\ running' = FALSE
  /\ ui' = "esc_lock"
  /\ UNCHANGED <<machineVars, mutex, pc, guard, failure, rx>>

\* 'r': if running.load(Acquire) ...
UiRunLoad ==
  /\ ui = "select"
  /\ running \/ Len(rx) < MaxReports
  /\ ui' = IF running THEN "stop_store" ELSE "start_store"
  /\ UNCHANGED <<machineVars, running, mutex, pc, guard, failure, rx>>

\* ... { running.store(false), then environment.lock().await }
UiStopStore ==
  /\ ui = "stop_store"
  /\ running' = FALSE
  /\ ui' = "stop_lock"
  /\ UNCHANGED <<machineVars, mutex, pc, guard, failure, rx>>

\* ... else { running.store(true, Release) }: no wake is posted.
UiStartStore ==
  /\ ui = "start_store"
  /\ running' = TRUE
  /\ ui' = "select"
  /\ UNCHANGED <<machineVars, mutex, pc, guard, failure, rx>>

\* 'l': running.store(false), then environment.lock().await.
UiLoad ==
  /\ ui = "select"
  /\ loads < MaxLoads
  /\ running' = FALSE
  /\ ui' = "load_lock"
  /\ UNCHANGED <<machineVars, mutex, pc, guard, failure, rx>>

\* 'q' and the end of run: running.store(false), then the death lock.
UiQuit ==
  /\ ui = "select"
  /\ running' = FALSE
  /\ ui' = "death_lock"
  /\ UNCHANGED <<machineVars, mutex, pc, guard, failure, rx>>

\* Some(report) = executor_handler.rx.recv(): a Failure goes on to
\* environment.lock().await, any other report back to the select!.
UiRecv ==
  /\ ui = "select"
  /\ rx # <<>>
  /\ rx' = Tail(rx)
  /\ ui' = IF Head(rx).report = "Failure" THEN "failure_lock" ELSE "select"
  /\ UNCHANGED <<machineVars, running, mutex, pc, guard, failure>>

\* The UI's positions inside environment.lock().await, and the position
\* each one continues at with the guard.
UiLockWaits ==
  {"esc_lock", "stop_lock", "load_lock", "failure_lock", "death_lock"}

UiHeld(wait) ==
  CASE wait = "esc_lock" -> "esc_held"
    [] wait = "stop_lock" -> "stop_held"
    [] wait = "load_lock" -> "load_held"
    [] wait = "failure_lock" -> "failure_held"
    [] wait = "death_lock" -> "death_held"

\* environment.lock().await completes.
UiAcquire ==
  /\ ui \in UiLockWaits
  /\ mutex = "free"
  /\ mutex' = "ui"
  /\ ui' = UiHeld(ui)
  /\ UNCHANGED <<machineVars, running, pc, guard, failure, rx>>

\* Esc with the guard: guard.iar = 0; environment = guard.clone(); drop.
UiEscApply ==
  /\ ui = "esc_held"
  /\ environment' = [environment EXCEPT !.iar = 0]
  /\ outcome' = NoOutcome
  /\ before' = [env |-> environment', st |-> device_state]
  /\ mutex' = "free"
  /\ ui' = "select"
  /\ UNCHANGED <<device_array, device_state, lcd_grid, lcd_task_panicked,
                 overflow_checks, panicked, steps, loads,
                 running, pc, guard, failure, rx>>

\* 'l' with the guard: *guard = environment.clone(), the assembled image.
UiLoadApply(image) ==
  /\ ui = "load_held"
  /\ environment' = [iar |-> 0, memory |-> image, poison |-> FALSE]
  /\ outcome' = NoOutcome
  /\ before' = [env |-> environment', st |-> device_state]
  /\ steps' = 0
  /\ loads' = loads + 1
  /\ mutex' = "free"
  /\ ui' = "select"
  /\ UNCHANGED <<device_array, device_state, lcd_grid, lcd_task_panicked,
                 overflow_checks, panicked, running, pc, guard, failure, rx>>

\* 'r' (stop), a Failure report and the death lock with the guard: the UI
\* clones the environment, or nothing, and drops the guard.
UiRelease ==
  /\ ui \in {"stop_held", "failure_held", "death_held"}
  /\ mutex' = "free"
  /\ ui' = IF ui = "death_held" THEN "done" ELSE "select"
  /\ UNCHANGED <<machineVars, running, pc, guard, failure, rx>>

\* The images the UI loads: a BEQ at 0 that branches to itself for ever, and
\* a MOV between local cells followed by the zero word.
ExecImages ==
  { MemOf(QuadAt(0, 13, 0, 0, 0)),
    MemOf(QuadAt(0, 5, 20, 21, 0) \o << <<21, 7>> >>) }

ExecutorNext ==
  \/ ExecCheck
  \/ ExecLock
  \/ ExecStep
  \/ ExecFailDrop
  \/ ExecFailStore
  \/ ExecFailSend
  \/ ExecYield
  \/ ExecDrop

\* What the UI does without a further key: the stores a key handler is
\* about to make, the completion of lock().await, and its work under the
\* guard.
UiContinue ==
  \/ UiStopStore
  \/ UiStartStore
  \/ UiAcquire
  \/ UiEscApply
  \/ \E image \in ExecImages : UiLoadApply(image)
  \/ UiRelease

NextExec ==
  \/ ExecutorNext
  \/ UiEsc
  \/ UiRunLoad
  \/ UiLoad
  \/ UiQuit
  \/ UiRecv
  \/ UiContinue

SpecExec == Init /\ [][NextExec]_vars

\* The runtime polls a ready task again, so each task's next operation
\* happens if it stays possible; keys and reports are taken when the UI
\* chooses to.
FairSpecExec ==
  /\ Init
  /\ [][NextExec]_vars
  /\ WF_vars(ExecutorNext)
  /\ WF_vars(UiContinue)


(***************************************************************************)
(* The claims.  B is the environment the last step call entered; Op, A1,   *)
(* A2, A3 the quad at its iar.  A state with outcome.kind # "None" is the  *)
(* state a step call left (grid tasks may have run since: they touch       *)
(* neither the environment nor outcome).                                   *)
(***************************************************************************)
B == before.env

Stepped == outcome.kind # "None"

Op == MemRead(B.memory, B.iar)
A1 == MemRead(B.memory, B.iar + 1)
A2 == MemRead(B.memory, B.iar + 2)
A3 == MemRead(B.memory, B.iar + 3)

\* The call passed the poison check and the iar check and fetched its quad.
Fetched == Stepped /\ ~B.poison /\ B.iar >= 0 /\ B.iar < MEMORY_SIZE - 4

Local(a) == a >= 0 /\ a < MEMORY_SIZE

\* M[a] at the entry of the call, read through the address space.
M(a) == get_mem(a, B, device_array, before.st).val

IsFatal(kind) ==
  kind \in {"Halted", "AlreadyPoisoned", "InvalidInstruction", "InvalidIAR",
            "InvalidIndex", "DeviceFailure", "DivisionByZero"}

\* This transition is a step call.
StepTaken == steps' = steps + 1

\* C1: a step entered with poison clear and a valid iar (iar + 4 <= 16384)
\* whose opcode word is 0 returns Fatal Halted, leaves iar and every memory
\* word unchanged, and leaves poison = true.
C1_HaltReturnsHalted ==
  (Stepped /\ ~B.poison /\ B.iar >= 0 /\ B.iar <= MEMORY_SIZE - 4 /\ Op = 0)
    => /\ outcome.kind = "Halted"
       /\ environment.iar = B.iar
       /\ environment.memory = B.memory
       /\ environment.poison

\* C2: a step that fetches an opcode word outside 0..17 (negative values
\* included) returns InvalidInstruction carrying that word, modifies
\* neither memory nor iar, and leaves poison = true.
C2_InvalidInstruction ==
  (Fetched /\ Op \notin 0 .. 17)
    => /\ outcome.kind = "InvalidInstruction"
       /\ outcome.num = <<Op>>
       /\ environment.memory = B.memory
       /\ environment.iar = B.iar
       /\ environment.poison

C2_Witness ==
  /\ Fetched /\ Op = MinI32
  /\ outcome.kind = "InvalidInstruction" /\ outcome.num = <<MinI32>>
  /\ environment.poison

\* C3: a step that returns a Fatal leaves poison set; a step entered with
\* poison set returns AlreadyPoisoned and changes neither the environment
\* (memory, iar) nor any device state; and poison, once set, is cleared only
\* from outside step (by the UI's Load).
C3_PoisonRoundTrip ==
  /\ [][(StepTaken /\ IsFatal(outcome'.kind)) => environment'.poison]_vars
  /\ [][(StepTaken /\ environment.poison)
          => /\ outcome'.kind = "AlreadyPoisoned"
             /\ environment' = environment
             /\ device_state' = device_state
             /\ lcd_grid' = lcd_grid]_vars
  /\ [][(environment.poison /\ ~environment'.poison) => loads' = loads + 1]_vars

C3_Witness ==
  /\ outcome.kind = "AlreadyPoisoned" /\ B.poison /\ environment.poison
  /\ steps >= 3

\* C4: step returns InvalidIAR{iar} exactly when iar + 4 > 16384 at entry:
\* every step entered with poison clear and iar + 4 <= 16384 (iar = 16380
\* included) fetches and executes its quad.
C4_InvalidIarExactly ==
  (Stepped /\ ~B.poison)
    => /\ (outcome.kind = "InvalidIAR")
             <=> ~(B.iar >= 0 /\ B.iar <= MEMORY_SIZE - 4)
       /\ outcome.kind = "InvalidIAR" => outcome.num = <<B.iar>>

\* C5: a successful step updates iar exactly once: to iar + 4 for ops 1-12
\* and for ops 13-15 whose predicate is false, to a1 for ops 13-15 whose
\* predicate is true (BEQ equal, BNE not equal, BLT signed less-than) and
\* for CAL, to M[a1] for RET.
C5_Predicate ==
  CASE Op = 13 -> M(A2) = M(A3)
    [] Op = 14 -> M(A2) # M(A3)
    [] Op = 15 -> M(A2) < M(A3)

C5_OneIarUpdate ==
  (Stepped /\ outcome.kind = "Ok")
    => /\ Op \in 1 .. 17
       /\ Op \in 1 .. 12 => environment.iar = B.iar + 4
       /\ Op \in 13 .. 15 =>
            environment.iar = (IF C5_Predicate THEN A1 ELSE B.iar + 4)
       /\ Op = 16 => environment.iar = A1
       /\ Op = 17 => environment.iar = M(A1)

C5_Witness ==
  /\ Stepped /\ outcome.kind = "Ok" /\ Op = 15
  /\ M(A2) < M(A3) /\ M(A2) < 0
  /\ environment.iar = A1 /\ A1 # B.iar + 4

\* The read of a succeeds (a is local, or a device register that can be read).
Readable(a) == get_mem(a, B, device_array, before.st).tag = "Ok"

\* r = a + b modulo 2^32, by 16-bit limbs.
Lo16(x) == x % 65536
Hi16(x) == x \div 65536

CongruentSum(r, a, b) ==
  LET lo == Lo16(a) + Lo16(b)
  IN  /\ Lo16(r) = lo % 65536
      /\ (Hi16(r) - Hi16(a) - Hi16(b) - (lo \div 65536)) % 65536 = 0

\* For x # 0: |x| - 1, which lies in 0 .. MaxI32 for every i32.
MagnitudeLess1(x) == IF x < 0 THEN -1 - x ELSE x - 1

\* (ma + 1) * (mb + 1) > MaxI32, and > MaxI32 + 1.
MagnitudesExceedMax(ma, mb) ==
  IF mb = MaxI32 THEN TRUE ELSE ma >= MaxI32 \div (mb + 1)

MagnitudesExceedMaxPlus1(ma, mb) ==
  IF mb = 0 \/ ma = 0 THEN FALSE
  ELSE IF mb = MaxI32 THEN TRUE
  ELSE LET y == mb + 1
           q == (MaxI32 \div y) + (IF MaxI32 % y = y - 1 THEN 1 ELSE 0)
       IN  ma >= q

\* The exact product a * b clamped to MinI32 .. MaxI32.
ClampedProduct(a, b) ==
  IF a = 0 \/ b = 0 THEN 0
  ELSE LET ma == MagnitudeLess1(a)
           mb == MagnitudeLess1(b)
       IN  IF (a < 0) = (b < 0)
           THEN (IF MagnitudesExceedMax(ma, mb) THEN MaxI32 ELSE a * b)
           ELSE (IF MagnitudesExceedMaxPlus1(ma, mb) THEN MinI32 ELSE a * b)

\* C6: ADD and SUB store the sum and the difference modulo 2^32
\* (MaxI32 + 1 = MinI32) and MUL stores the product clamped to the i32
\* range, into M[a1].
C6_Arithmetic ==
  (Fetched /\ Op \in {1, 2, 3} /\ Readable(A2) /\ Readable(A3) /\ Local(A1))
    => LET r == MemRead(environment.memory, A1)
           a == M(A2)
           b == M(A3)
       IN  /\ outcome.kind = "Ok"
           /\ Op = 1 => CongruentSum(r, a, b)
           /\ (Op = 1 /\ a = MaxI32 /\ b = 1) => r = MinI32
           /\ Op = 2 => CongruentSum(a, r, b)
           /\ Op = 3 => r = ClampedProduct(a, b)
           /\ (Op = 3 /\ a = MaxI32 /\ b = 2) => r = MaxI32
           /\ (Op = 3 /\ a = MinI32 /\ b = 2) => r = MinI32

C6_Witness ==
  /\ Fetched /\ Op = 1 /\ outcome.kind = "Ok" /\ Local(A1)
  /\ M(A2) = MaxI32 /\ M(A3) = 1
  /\ MemRead(environment.memory, A1) = MinI32

\* r is the quotient a / b rounded toward zero, for b # 0.
TruncatedQuotient(r, a, b) ==
  /\ ~MulOverflows(r, b)
  /\ r * b = 0 \/ (r * b > 0) = (a > 0)
  /\ LET rem == a - r * b
     IN  /\ rem = 0 \/ (rem > 0) = (a > 0)
         /\ IF b > 0 THEN rem < b /\ rem > -b
            ELSE rem > b /\ (b = MinI32 \/ rem < -b)

\* C7: DIV with M[a3] = 0 returns Fatal DivisionByZero without writing
\* M[a1]; for every non-zero divisor it stores the truncating quotient, and
\* MinI32 / -1 stores MinI32.
C7_Division ==
  (Fetched /\ Op = 4 /\ Readable(A2) /\ Readable(A3))
    => LET r == MemRead(environment.memory, A1)
           a == M(A2)
           b == M(A3)
       IN  /\ b = 0 => /\ outcome.kind = "DivisionByZero"
                       /\ environment.memory = B.memory
           /\ (b # 0 /\ Local(A1)) =>
                /\ outcome.kind = "Ok"
                /\ IF a = MinI32 /\ b = -1 THEN r = MinI32
                   ELSE TruncatedQuotient(r, a, b)

C7_Witness ==
  /\ Fetched /\ Op = 4 /\ outcome.kind = "Ok" /\ Local(A1)
  /\ M(A2) = MinI32 /\ M(A3) = -1
  /\ MemRead(environment.memory, A1) = MinI32

\* C8: a CAL at p with target t and local link address l sets M[l] = p + 4
\* and iar = t; when the next step then executes a RET at t that names l, it
\* sets iar = p + 4, the instruction after the CAL.
C8_CallStep ==
  (Fetched /\ Op = 16 /\ Local(A2))
    => /\ outcome.kind = "Ok"
       /\ MemRead(environment.memory, A2) = B.iar + 4
       /\ environment.iar = A1

C8_RetFollowsCall ==
  /\ Fetched /\ Op = 16 /\ Local(A2) /\ outcome.kind = "Ok"
  /\ environment.iar >= 0 /\ environment.iar < MEMORY_SIZE - 4
  /\ MemRead(environment.memory, environment.iar) = 17
  /\ MemRead(environment.memory, environment.iar + 1) = A2

C8_CallRetRoundTrip ==
  /\ []C8_CallStep
  /\ [][(C8_RetFollowsCall /\ StepTaken)
          => /\ outcome'.kind = "Ok"
             /\ environment'.iar = B.iar + 4]_vars

\* The state a RET leaves when the quad before the address it returned to is
\* the CAL that targets the RET and names its link.
C8_Witness ==
  /\ Fetched /\ Op = 17 /\ outcome.kind = "Ok" /\ Local(A1) /\ steps >= 2
  /\ environment.iar >= 4 /\ environment.iar < MEMORY_SIZE
  /\ MemRead(environment.memory, environment.iar - 4) = 16
  /\ MemRead(environment.memory, environment.iar - 3) = B.iar
  /\ MemRead(environment.memory, environment.iar - 2) = A1
  /\ MemRead(B.memory, A1) = environment.iar

\* C9: STX writes the value M[a1] to address a2 + M[a3] and LDX writes the
\* value M[a2 + M[a3]] to address a1 (a2 a literal base, only M[a3]
\* dereferenced); no other memory word changes, and iar advances by 4.
C9_Indexed ==
  (Fetched /\ Op \in {11, 12} /\ outcome.kind = "Ok"
     /\ ~AddOverflows(A2, M(A3)))
    => LET index == A2 + M(A3)
       IN  /\ environment.iar = B.iar + 4
           /\ Op = 12 =>
                environment.memory =
                  (IF Local(index) THEN MemWrite(B.memory, index, M(A1))
                   ELSE B.memory)
           /\ Op = 11 =>
                environment.memory =
                  (IF Local(A1) THEN MemWrite(B.memory, A1, M(index))
                   ELSE B.memory)

C9_Witness ==
  /\ Fetched /\ Op = 12 /\ outcome.kind = "Ok"
  /\ A1 = 20 /\ A2 = 24 /\ M(A3) = 2 /\ M(A1) = 99 /\ M(A2) # 24
  /\ MemRead(environment.memory, 26) = 99 /\ MemRead(B.memory, 26) = 0
  /\ environment.iar = B.iar + 4

\* C10: step leaves every memory word unchanged when the opcode is 13, 14
\* or 15 and the branch predicate is false, and when the opcode is 0.
C10_MemoryFrame ==
  (Fetched /\ (Op = 0 \/ (/\ Op \in {13, 14, 15}
                          /\ Readable(A2) /\ Readable(A3)
                          /\ ~C5_Predicate)))
    => environment.memory = B.memory

C10_Witness ==
  /\ Fetched /\ Op = 14 /\ M(A2) = M(A3) /\ Local(A2) /\ Local(A3)
  /\ outcome.kind = "Ok"
  /\ environment.iar = B.iar + 4
  /\ environment.memory = B.memory /\ B.memory # <<>>

\* No device claims the address a of device space.
Unclaimed(a) == ~Local(a) /\ a \notin DOMAIN device_array.registers

\* The addresses the instruction reads and writes when every access succeeds.
C11_Operands ==
  CASE Op \in {1, 2, 3, 4, 6, 7, 9, 10} -> {A1, A2, A3}
    [] Op \in {5, 8} -> {A1, A2}
    [] Op \in {11, 12} ->
         {A1, A3} \cup (IF Local(A3) /\ ~AddOverflows(A2, M(A3))
                        THEN {A2 + M(A3)} ELSE {})
    [] Op \in {13, 14, 15} -> {A2, A3}
    [] Op = 16 -> {A2}
    [] Op = 17 -> {A1}
    [] OTHER -> {}

C11_InvalidIndexAt(a) == outcome.kind = "InvalidIndex" /\ outcome.num = <<a>>

\* C11: an operand address below 16384 is served by the local memory and
\* never by the bus (a step whose operands are all local returns no bus
\* error); an address at or above 16384, 16384 itself included, goes to the
\* bus, and when no device claims it the step returns InvalidIndex carrying
\* that address, for a read and for a write alike.
C11_RoutingBoundary ==
  Fetched =>
    /\ outcome.kind = "InvalidIndex" =>
         (Len(outcome.num) = 1 /\ Unclaimed(outcome.num[1]))
    /\ ((\A a \in C11_Operands : Local(a))
          /\ (Op \in {11, 12} => ~AddOverflows(A2, M(A3))))
         => outcome.kind \notin {"InvalidIndex", "DeviceFailure"}
    /\ (Op \in (1 .. 10) \cup (13 .. 15) /\ Unclaimed(A2))
         => C11_InvalidIndexAt(A2)
    /\ (Op \in {1, 2, 3, 4, 6, 7, 9, 10, 13, 14, 15}
          /\ Readable(A2) /\ Unclaimed(A3))
         => C11_InvalidIndexAt(A3)
    /\ (Op \in {11, 12} /\ Unclaimed(A3)) => C11_InvalidIndexAt(A3)
    /\ (Op = 17 /\ Unclaimed(A1)) => C11_InvalidIndexAt(A1)
    /\ (Op \in {5, 8} /\ Readable(A2) /\ Unclaimed(A1))
         => C11_InvalidIndexAt(A1)
    /\ (Op = 16 /\ Unclaimed(A2)) => C11_InvalidIndexAt(A2)
    /\ (Op = 12 /\ Local(A3) /\ Readable(A1) /\ ~AddOverflows(A2, M(A3))
          /\ Unclaimed(A2 + M(A3)))
         => C11_InvalidIndexAt(A2 + M(A3))

\* A MOV from a local cell to 16384, the first address of device space.
C11_Witness ==
  /\ Fetched /\ Op = 5 /\ Local(A2) /\ A1 = MEMORY_SIZE
  /\ C11_InvalidIndexAt(MEMORY_SIZE)
  /\ environment.memory = B.memory

\* The device rejects the read of a, or the write of v to a, that the last
\* step call made on the device state it entered; and the error it gives.
ReadRejected(a) == get_mem(a, B, device_array, before.st).tag = "Err"
ReadError(a) == get_mem(a, B, device_array, before.st).err
WriteRejected(a, v) == set_mem(a, v, B, device_array, before.st).tag = "Err"
WriteError(a, v) == set_mem(a, v, B, device_array, before.st).err

C12_FailsWith(e) ==
  /\ outcome.kind = "DeviceFailure" /\ outcome.error = e
  /\ environment.poison
  /\ environment.iar = B.iar

\* C12: when a mapped device rejects an operand read or write with a
\* DeviceError (Busy, Dead, Unreadable, Unwritable), step returns Fatal
\* DeviceFailure with exactly that error, leaves poison set and does not
\* advance iar; an instruction that reads a hex display register fails with
\* DeviceFailure{Unreadable}.
C12_DeviceFailure ==
  Fetched =>
    /\ outcome.kind = "DeviceFailure" =>
         outcome.error \in {"Busy", "Dead", "Unreadable", "Unwritable"}
    /\ (Op \in (1 .. 10) \cup (13 .. 15) /\ ReadRejected(A2))
         => C12_FailsWith(ReadError(A2))
    /\ (Op \in {1, 2, 3, 4, 6, 7, 9, 10, 13, 14, 15}
          /\ Readable(A2) /\ ReadRejected(A3))
         => C12_FailsWith(ReadError(A3))
    /\ (Op \in {11, 12} /\ ReadRejected(A3)) => C12_FailsWith(ReadError(A3))
    /\ (Op = 17 /\ ReadRejected(A1)) => C12_FailsWith(ReadError(A1))
    /\ (Op = 5 /\ Readable(A2) /\ WriteRejected(A1, M(A2)))
         => C12_FailsWith(WriteError(A1, M(A2)))
    /\ (Op = 16 /\ WriteRejected(A2, B.iar + 4))
         => C12_FailsWith(WriteError(A2, B.iar + 4))
    /\ (Op \in (1 .. 10) \cup (13 .. 15) /\ A2 \in HexRegisters)
         => C12_FailsWith("Unreadable")
    /\ (Op = 17 /\ A1 \in HexRegisters) => C12_FailsWith("Unreadable")

\* A write to the armed keyboard: Busy.
C12_Witness ==
  /\ Fetched /\ Op = 5 /\ Local(A2) /\ A1 = Reg(32) /\ before.st.kbd.turn
  /\ C12_FailsWith("Busy")
  /\ B.iar = 4

\* The address the instruction of the last step call wrote, as a sequence of
\* length 0 or 1: a1 for ops 1-11, a2 + M[a3] for STX, the link a2 for CAL.
WrittenAddress ==
  CASE Op \in 1 .. 11 -> <<A1>>
    [] Op = 12 -> <<wrapping_add(A2, M(A3))>>
    [] Op = 16 -> <<A2>>
    [] OTHER -> <<>>

\* A successful write to a makes its device ask for a redraw (no device's
\* answer depends on the value written).
RedrawOnWrite(a) ==
  \E v \in {0, 1} :
    LET w == set_mem(a, v, B, device_array, before.st)
    IN  w.tag = "Ok" /\ w.redraw

\* C13: on every successful step the report's redraw is true iff the
\* instruction's write went to a device and the device returned
\* redraw = true; a write below 16384, or no write, reports redraw = false.
C13_RedrawIffDevice ==
  (Stepped /\ outcome.kind = "Ok")
    => outcome.redraw =
         (/\ WrittenAddress # <<>>
          /\ ~Local(WrittenAddress[1])
          /\ RedrawOnWrite(WrittenAddress[1]))

\* C14: on every successful step the report's changed is Some(address) of
\* the address the instruction wrote (a1 for ops 1-11, a2 + M[a3] for STX,
\* the link a2 for CAL), and None exactly for branches 13-15 and RET.
C14_ChangedIsWritten ==
  (Stepped /\ outcome.kind = "Ok")
    => /\ outcome.changed = WrittenAddress
       /\ outcome.changed = <<>> <=> Op \in {13, 14, 15, 17}

\* This transition is a call of step by the executor task, and its Err arm's
\* three operations.
ExecStepTaken == pc = "step" /\ pc' # "step"

FailureReport(e) == [report |-> "Failure", error |-> e]

\* The Err arm: the guard is released, then running is cleared, then one
\* Failure carrying the step's error is sent, and nothing else sends one.
C15_ErrArmOrder ==
  /\ [][(ExecStepTaken /\ IsFatal(outcome'.kind))
          => (pc' = "fail_drop" /\ failure' = outcome' /\ mutex' = "executor")]_vars
  /\ [][(pc = "fail_drop" /\ pc' # pc)
          => (/\ pc' = "fail_store" /\ mutex' = "free"
              /\ running' = running /\ rx' = rx)]_vars
  /\ [][(pc = "fail_store" /\ pc' # pc)
          => (/\ pc' = "fail_send" /\ ~running' /\ mutex' = mutex
              /\ rx' = rx /\ failure' = failure)]_vars
  /\ [][(pc = "fail_send" /\ pc' # pc)
          => (pc' = "yield" /\ rx' = Append(rx, FailureReport(failure)))]_vars
  /\ [][Len(rx') > Len(rx) => pc = "fail_send"]_vars

\* The executor goes from its check of running to a step only when it read
\* running set.
C15_NoStepUntilRunning ==
  [][(pc = "check" /\ pc' \in {"lock", "step"}) => running]_vars

\* The UI takes a Failure off the channel while the executor does not hold
\* the guard.
C15_RecvWithoutGuard ==
  [][(ui = "select" /\ ui' = "failure_lock") => mutex # "executor"]_vars

\* C15: for every step that returns a Fatal while running the executor
\* releases the guard, then clears running, then sends exactly one Failure
\* carrying that error; so when the UI receives a Failure the executor does
\* not hold the guard, and it executes no further step until running is set
\* again.
C15_FailurePath ==
  /\ C15_ErrArmOrder
  /\ C15_NoStepUntilRunning
  /\ C15_RecvWithoutGuard

\* The executor is idle: between its check of running and its await of the
\* wake, or parked on it.
ExecIdle == pc \in {"drop", "notified"}

\* The executor has just returned from a call of step.
ExecAfterStep == pc \in {"yield", "fail_drop", "dead"}

\* C16: whenever running is set (by the UI's Run) while the executor is
\* idle, the executor is eventually woken and performs a step, unless the
\* UI clears running first, under fair scheduling.
C16_StartLiveness ==
  (running /\ ExecIdle) ~> (ExecAfterStep \/ ~running)

\* The UI has cleared running (Stop, Load, Esc, the end of run) and waits in
\* environment.lock().await.
UiStopWaits == {"esc_lock", "stop_lock", "load_lock", "death_lock"}

\* The executor is about to call step without another check of running.
ExecCommitted == pc \in {"lock", "step"}

\* While the UI waits after clearing running the executor makes at most one
\* more call of step: once it is past a call, or was not about to make
\* one, it does not come back to one.
C17_AtMostOneMoreStep ==
  /\ [](ui \in UiStopWaits => ~running)
  /\ [][(ui \in UiStopWaits /\ ExecStepTaken) => ~ExecCommitted']_vars
  /\ [][(ui \in UiStopWaits /\ ui' = ui /\ ~ExecCommitted)
          => ~ExecCommitted']_vars

\* The UI's wait after clearing running ends with the guard.
C17_StopWaitEnds == (ui \in UiStopWaits) ~> (mutex = "ui")

\* No wait of the UI for the guard lasts for ever.
C17_NoWaitForEver == (ui \in UiLockWaits) ~> (mutex = "ui")

\* C17: after the UI clears running (Stop, Load, Reset, shutdown) and waits
\* for the guard, the executor executes at most one more step, releases the
\* guard and parks, so the UI's acquisition eventually succeeds under fair
\* scheduling; no reachable state has the UI blocked on the guard for ever.
C17_StopLiveness ==
  /\ C17_AtMostOneMoreStep
  /\ C17_StopWaitEnds
  /\ C17_NoWaitForEver

\* C18: the executor calls step only while it holds the environment guard;
\* it keeps the guard across consecutive steps and releases it only after
\* it read running clear or after a step returned a Fatal; so while the UI
\* holds the guard no step executes, and only the UI changes the
\* environment.
C18_SingleWriter ==
  /\ [](guard <=> mutex = "executor")
  /\ [](pc = "step" => mutex = "executor")
  /\ [][ExecStepTaken => mutex = "executor"]_vars
  /\ [][(ExecStepTaken /\ outcome'.kind = "Ok") => mutex' = "executor"]_vars
  /\ [][(mutex = "executor" /\ mutex' # "executor")
          => \/ pc = "drop"
             \/ pc = "fail_drop" /\ IsFatal(failure.kind)]_vars
  /\ [][(pc = "check" /\ pc' = "drop") => ~running]_vars
  /\ [][(mutex = "ui" /\ environment' # environment)
          => ui \in {"esc_held", "load_held"}]_vars

\* The executor holds the guard for its third step in a row while the UI,
\* which has cleared running, waits for it.
C18_Witness ==
  /\ pc = "step" /\ guard /\ mutex = "executor"
  /\ steps >= 2 /\ outcome.kind = "Ok"
  /\ ui = "stop_lock" /\ ~running

\* C19: the UI's Reset (Esc) on an environment whose last step returned a
\* Fatal leaves running false, iar 0 and poison false, so the step of the
\* next Run executes the instruction at 0 and does not return
\* AlreadyPoisoned.
C19_ResetRecovers ==
  /\ [][(ui = "esc_held" /\ ui' = "select" /\ IsFatal(outcome.kind))
          => (/\ ~running'
              /\ environment'.iar = 0
              /\ ~environment'.poison)]_vars
  /\ [][(ExecStepTaken /\ outcome.kind = "None")
          => outcome'.kind # "AlreadyPoisoned"]_vars

\* The keyboard was armed (turn set) when the last step call entered.
ArmedBefore == before.st.kbd.turn

\* The turn bit after a step that writes to a keyboard register while the
\* keyboard is not armed: set iff the write is of 1 to 0x80000020.
C20_TurnAfterWrite ==
  [][LET op == MemRead(environment.memory, environment.iar)
         a1 == MemRead(environment.memory, environment.iar + 1)
         a2 == MemRead(environment.memory, environment.iar + 2)
     IN  (/\ StepTaken
          /\ ~environment.poison /\ ~IarRejected(environment.iar)
          /\ op = 5 /\ a1 \in KbdRegisters /\ Local(a2)
          /\ ~device_state.kbd.turn)
           => device_state'.kbd.turn =
                (a1 = Reg(32) /\ MemRead(environment.memory, a2) = 1)]_vars

\* C20: while the keyboard is not armed a write of 1 to 0x80000020 arms it
\* (the turn bit becomes 1) and every other write (another value, or
\* register 0x80000021 or 0x80000022) is rejected as Unwritable and leaves
\* the turn bit 0; while it is armed a read of 0x80000020 returns 1 and
\* reads of 0x80000021 and 0x80000022 return Busy.
C20_KeyboardArming ==
  /\ [](( /\ Fetched /\ Op = 5 /\ Local(A2) /\ A1 \in KbdRegisters
          /\ ~ArmedBefore)
         => IF A1 = Reg(32) /\ M(A2) = 1
            THEN outcome.kind = "Ok"
            ELSE outcome.kind = "DeviceFailure" /\ outcome.error = "Unwritable")
  /\ C20_TurnAfterWrite
  /\ [](( /\ Fetched /\ Op = 5 /\ Local(A1) /\ A2 \in KbdRegisters
          /\ ArmedBefore)
         => IF A2 = Reg(32)
            THEN outcome.kind = "Ok" /\ MemRead(environment.memory, A1) = 1
            ELSE outcome.kind = "DeviceFailure" /\ outcome.error = "Busy")

\* A program armed the keyboard and then read 1 from 0x80000020.
C20_Witness ==
  /\ Fetched /\ Op = 5 /\ Local(A1) /\ A2 = Reg(32) /\ ArmedBefore
  /\ outcome.kind = "Ok" /\ MemRead(environment.memory, A1) = 1
  /\ steps = 2

\* C21: for every interleaving of the arming write with the capture task
\* (arming right after the device is created and right after a capture
\* included), once the keyboard is armed and key events keep arriving the
\* turn bit is eventually cleared, and when it is cleared the registers
\* 0x80000021 and 0x80000022 read the event the task took; the keyboard
\* never stays armed for ever.
C21_CaptureLiveness ==
  /\ device_state.kbd.turn ~> ~device_state.kbd.turn
  /\ [][(device_state.kbd.turn /\ ~device_state'.kbd.turn)
          => /\ device_state.kbd.pc = "captured"
             /\ KbdGet(device_state', Reg(33)).tag = "Ok"
             /\ KbdGet(device_state', Reg(34)).val
                  = device_state'.kbd.event.keycode]_vars

\* This transition is a call of step that the environment shows: every call
\* entered with poison clear moves iar or leaves poison set.
StepSeen == environment' # environment /\ loads' = loads

\* The draw command the VGA device's registers describe.
DrawCommandOf(vga) ==
  [x1 |-> vga.x1, y1 |-> vga.y1, x2 |-> vga.x2, y2 |-> vga.y2,
   colour |-> vga.colour]

\* The low 10, 9 and 24 bits of a word, as the register of that name keeps.
VgaMasked(register, v) ==
  CASE register \in {Reg(98), Reg(100)} -> v % 1024
    [] register \in {Reg(99), Reg(101)} -> v % 512
    [] register = Reg(102) -> v % 16777216

VgaField(vga, register) ==
  CASE register = Reg(98) -> vga.x1
    [] register = Reg(99) -> vga.y1
    [] register = Reg(100) -> vga.x2
    [] register = Reg(101) -> vga.y2
    [] register = Reg(102) -> vga.colour

\* C22: a non-zero write to 0x80000060 in write mode either enqueues exactly
\* one draw command {x1, y1, x2, y2, colour} holding the most recently
\* written register values (X masked to 10 bits, Y to 9, colour to 24) and
\* reports redraw = false, or, when the channel holds its 10 commands or is
\* closed, returns Dead and enqueues nothing; a write of 0 is Unwritable and
\* enqueues nothing.
C22_VgaCommit ==
  [][LET a1 == MemRead(environment.memory, environment.iar + 1)
         a2 == MemRead(environment.memory, environment.iar + 2)
         v == MemRead(environment.memory, a2)
         vga == device_state.vga
     IN  (/\ StepSeen /\ ~environment.poison /\ ~IarRejected(environment.iar)
          /\ MemRead(environment.memory, environment.iar) = 5 /\ Local(a2))
           => /\ (a1 = Reg(96) /\ v = 0)
                   => /\ outcome'.kind = "DeviceFailure"
                      /\ outcome'.error = "Unwritable"
                      /\ device_state' = device_state
              /\ (a1 = Reg(96) /\ v # 0 /\ vga.write_mode)
                   => IF vga.closed \/ Len(vga.queue) >= 10
                      THEN /\ outcome'.kind = "DeviceFailure"
                           /\ outcome'.error = "Dead"
                           /\ device_state' = device_state
                      ELSE /\ outcome'.kind = "Ok" /\ ~outcome'.redraw
                           /\ device_state'.vga.queue
                                = Append(vga.queue, DrawCommandOf(vga))
              /\ a1 \in {Reg(98), Reg(99), Reg(100), Reg(101), Reg(102)}
                   => /\ outcome'.kind = "Ok"
                      /\ VgaField(device_state'.vga, a1) = VgaMasked(a1, v)
                      /\ device_state'.vga.queue = vga.queue]_vars

\* The eleventh commit in a row finds the channel full: Dead, and the ten
\* commands stay, each holding x1 = 1034 mod 1024 and y1 = 515 mod 512.
C22_Witness ==
  /\ Fetched /\ Op = 5 /\ A1 = Reg(96) /\ M(A2) # 0
  /\ outcome.kind = "DeviceFailure" /\ outcome.error = "Dead"
  /\ before.st.vga.write_mode /\ ~before.st.vga.closed
  /\ Len(device_state.vga.queue) = DRAW_CHANNEL_CAPACITY
  /\ device_state.vga.queue[DRAW_CHANNEL_CAPACITY].x1 = 10
  /\ device_state.vga.queue[DRAW_CHANNEL_CAPACITY].y1 = 3

\* C23: after a write of any non-zero value, positive or negative, to
\* 0x80000061 the device is in write mode and a non-zero commit emits a draw
\* command; after a write of 0 it is in read mode, and every non-zero commit
\* in read mode returns Dead and emits nothing.
C23_VgaModeFlag ==
  [][LET a1 == MemRead(environment.memory, environment.iar + 1)
         a2 == MemRead(environment.memory, environment.iar + 2)
         v == MemRead(environment.memory, a2)
         vga == device_state.vga
     IN  (/\ StepSeen /\ ~environment.poison /\ ~IarRejected(environment.iar)
          /\ MemRead(environment.memory, environment.iar) = 5 /\ Local(a2))
           => /\ a1 = Reg(97)
                   => /\ outcome'.kind = "Ok"
                      /\ device_state'.vga.write_mode = (v # 0)
              /\ (a1 = Reg(96) /\ v # 0 /\ ~vga.write_mode)
                   => /\ outcome'.kind = "DeviceFailure"
                      /\ outcome'.error = "Dead"
                      /\ device_state' = device_state]_vars

\* C24: after any sequence of register calls each mapped address routes to
\* a device that claims it, and an address once mapped to a device never
\* changes to another device: a registration that overlaps an existing
\* claim does not re-route the address.
C24_MappingStable ==
  /\ [](\A r \in DOMAIN device_array.registers :
         /\ device_array.registers[r] + 1 \in 1 .. Len(device_array.devices)
         /\ r \in registers(device_array.devices[device_array.registers[r] + 1]))
  /\ [][\A r \in DOMAIN device_array.registers :
         /\ r \in DOMAIN device_array'.registers
         /\ device_array'.registers[r] = device_array.registers[r]]_vars

\* The captures of a file: how many there are, whether all digits fit, and
\* entry number k (0 past the last one).
RECURSIVE EntryCount(_)
EntryCount(file) ==
  IF file = <<>> THEN 0 ELSE Head(file).count + EntryCount(Tail(file))

RECURSIVE EntryAt(_, _)
EntryAt(file, k) ==
  IF file = <<>> THEN 0
  ELSE IF k < Head(file).count THEN Head(file).val
  ELSE EntryAt(Tail(file), k - Head(file).count)

RECURSIVE RunEnds(_, _)
RunEnds(file, index) ==
  IF file = <<>> THEN {index}
  ELSE {index, index + Head(file).count - 1}
         \cup RunEnds(Tail(file), index + Head(file).count)

\* C25: the k-th captured entry of an image file is stored at memory[k]
\* whatever address it declares, words without an entry stay 0, and a file
\* of more than 16384 entries gives a parse error and never ends the
\* program.
C25_ImageLoading ==
  "file" \in DOMAIN before =>
    LET file == before.file
        cells == {k \in RunEnds(file, 0) \cup DOMAIN environment.memory
                     \cup {MEMORY_SIZE - 1} : k < MEMORY_SIZE}
    IN  /\ ~panicked
        /\ EntryCount(file) > MEMORY_SIZE => outcome.kind = "ParseError"
        /\ (EntryCount(file) <= MEMORY_SIZE
              /\ \A i \in 1 .. Len(file) : file[i].fits)
             => outcome.kind = "Assembled"
        /\ outcome.kind = "Assembled"
             => /\ environment.iar = 0
                /\ \A k \in cells :
                     MemRead(environment.memory, k) = EntryAt(file, k)

\* C26: between step calls poison is true iff the most recent call returned
\* a Fatal: a call that returns a report leaves poison false, so the call
\* after a successful one is never refused as AlreadyPoisoned, a call that
\* returns a Fatal leaves poison true, and nothing but a step call or the
\* load of another environment changes poison.
C26_PoisonInvariant ==
  /\ []((Stepped /\ ~panicked)
          => (environment.poison <=> IsFatal(outcome.kind)))
  /\ [][(StepTaken /\ outcome'.kind = "Ok") => ~environment'.poison]_vars
  /\ [][(StepTaken /\ outcome.kind = "Ok")
          => outcome'.kind # "AlreadyPoisoned"]_vars
  /\ [][(~StepTaken /\ loads' = loads)
          => environment'.poison = environment.poison]_vars

\* A successful call followed by one that returned a Fatal.
C26_Witness ==
  /\ steps >= 2
  /\ ~B.poison
  /\ outcome.kind = "InvalidIndex"
  /\ environment.poison

\* C27: the event an arm makes readable was published after the arming
\* write: whenever the capture task completes a capture, an event has been
\* sent since the arm it serves, and the event it stores is the latest one.
\* An event sent before the arm and not yet consumed never completes it.
C27_CapturesNextEvent ==
  [][(device_state.kbd.pc = "holding" /\ device_state'.kbd.pc = "captured")
       => /\ device_state.kbd.since_arm
          /\ device_state'.kbd.event = device_state.kbd.latest]_vars

\* C28: a step call that returns any Fatal leaves the local memory array
\* and iar exactly as they were when it was entered; of the environment
\* only poison can differ.  No opcode writes local memory or iar before its
\* last point of failure.
C28_FatalLeavesEnvironment ==
  [][(StepTaken /\ IsFatal(outcome'.kind))
       => /\ environment'.memory = environment.memory
          /\ environment'.iar = environment.iar
          /\ environment'.poison]_vars

\* A CAL whose link address is outside the address space fails after its
\* quad was fetched.
C28_Witness ==
  /\ Fetched
  /\ Op = 16
  /\ outcome.kind = "InvalidIndex"
  /\ environment.iar = B.iar

\* Negative operand words: every register of the four devices, and words no
\* device claims.
C29_Words ==
  HexRegisters \cup LcdRegisters \cup KbdRegisters \cup VgaRegisters
    \cup {-1, MinI32, Reg(5), Reg(35), -MEMORY_SIZE}

C30_LcdInGrid ==
  /\ \A i \in 1 .. Len(device_state.spawned) :
       /\ device_state.spawned[i][1] >= 0 /\ device_state.spawned[i][1] < 14
       /\ device_state.spawned[i][2] >= 0 /\ device_state.spawned[i][2] < 2
  /\ ~lcd_task_panicked

\* C31: step is total: every call entered with poison clear returns a report
\* or one of the Fatal kinds and never aborts, whatever the build; SHL and
\* SHR with a shift count M[a3] outside 0..31 and LDX and STX whose
\* a2 + M[a3] leaves the signed 32-bit range return too.
C31_StepTotal ==
  /\ ~panicked
  /\ (Stepped /\ ~B.poison)
       => outcome.kind = "Ok" \/ IsFatal(outcome.kind)

====
